---- MODULE Spec2Model ----
(***************************************************************************)
(* PayGo: the mail ingestion and invoice classification pipeline.          *)
(*                                                                         *)
(* The module models the Gmail library (session/token store, OAuth flow,   *)
(* getEmails with its per-message processing), the verify-invoice          *)
(* forwarder and the mails/profiles routes of the document store.          *)
(*                                                                         *)
(* An asynchronous handler is cut at its awaits: one action is the         *)
(* resolution of the awaited call (its remote effect included) followed    *)
(* by the handler's synchronous continuation up to the next awaited call.  *)
(***************************************************************************)
EXTENDS Integers, Sequences, FiniteSets, TLC

(***************************************************************************)
(* Bounds of the model.                                                    *)
(***************************************************************************)
\* messages the mailbox lists for one getEmails request
MaxMsgs == 2
\* top-level parts of a message
MaxParts == 2
\* sessions authGoogle creates (session handles are fresh)
MaxSessions == 2
\* documents the profiles/mails collections are given fresh uuids for
MaxUuids == 3
\* direct parts of a payload with nested parts
MaxTreeParts == 3

(***************************************************************************)
(* Values.                                                                 *)
(***************************************************************************)
\* request slots: requests in flight in the one Node process
Slots == {1, 2}

\* Google subject identifiers (payload.sub); a property read off a value
\* that has no such property is the JavaScript undefined, and undefined
\* used as a property key is the string "undefined"
Users == {"u1", "u2"}
Undefined == "undefined"
NoUser == ""

\* cookie / state values: absent, a handle no session was ever created
\* under, a property every plain object inherits from Object.prototype,
\* and the handles authGoogle creates
NoKey == ""
StaleKey == "sess_stale"
ProtoKey == "constructor"
SessKey(n) == "sess_" \o ToString(n)
FreshKeys == {SessKey(n) : n \in 1..MaxSessions}
Keys == {NoKey, StaleKey, ProtoKey} \cup FreshKeys

\* authorization codes; the token set obtained for a code is named by it
NoCode == ""
Codes == {"c1"}
NoToken == ""

\* uuids are 1..MaxUuids; 0 stands for an absent uuid
NoUuid == 0

Put(f, k, v) == [x \in DOMAIN f \cup {k} |-> IF x = k THEN v ELSE f[x]]
Del(f, k) == [x \in DOMAIN f \ {k} |-> f[x]]
EmptyMap == [x \in {} |-> 0]

\* let storageCache: DevStorage = { sessions: {}, tokens: {} }
EmptyStorage == [sessions |-> EmptyMap, tokens |-> EmptyMap]

(***************************************************************************)
(* Messages as the mailbox API returns them (format=full).                 *)
(***************************************************************************)
Part(mime, fname, attId, size, data) ==
  [mimeType |-> mime, filename |-> fname, attachmentId |-> attId,
   size |-> size, data |-> data, parts |-> <<>>]

PdfA == Part("application/pdf", "a.pdf", "att", 5, "")
PdfB == Part("application/pdf", "b c.pdf", "att", 0, "")
TextPart == Part("text/plain", "", "", 2, "hi")
InlinePart == Part("image/png", "logo.png", "", 3, "")
PartKinds == {PdfA, PdfB, TextPart, InlinePart}

SeqsUpTo(S, n) == UNION {[1..k -> S] : k \in 0..n}

Message(id, subject, unread, parts) ==
  [id |-> id, subject |-> subject, unread |-> unread,
   payload |-> [data |-> "", parts |-> parts]]

MsgId(i) == "m" \o ToString(i)

\* the messages a listing of several ids is made of: an invoice with a
\* PDF, a mail with a text part, a mail without subject and body
Catalogue ==
  <<<<"Inv", TRUE, <<PdfA>>>>, <<"Hi", TRUE, <<TextPart>>>>, <<"", FALSE, <<>>>>>>

\* the mailbox: up to MaxMsgs messages taken in turn from the catalogue,
\* starting anywhere in it, or one message with any parts up to MaxParts
BatchInboxes ==
  {[i \in 1..n |->
      LET k == Catalogue[((i - 1 + o) % Len(Catalogue)) + 1]
      IN Message(MsgId(i), k[1], k[2], k[3])] :
   n \in 0..MaxMsgs, o \in 0..(Len(Catalogue) - 1)}
RichInboxes ==
  {<<Message(MsgId(1), s, TRUE, ps)>> :
      s \in {"Inv", ""}, ps \in SeqsUpTo(PartKinds, MaxParts)}
Inboxes == BatchInboxes \cup RichInboxes

\* MIME trees: text leaves with and without body data (a leaf's data is
\* named by the text it decodes to), containers, an attachment below a
\* container
HtmlPart(data) == Part("text/html", "", "", IF data = "" THEN 0 ELSE 9, data)
PlainPart(data) == Part("text/plain", "", "", IF data = "" THEN 0 ELSE 3, data)
Multipart(parts) ==
  [Part("multipart/alternative", "", "", 0, "") EXCEPT !.parts = parts]
TreeKinds ==
  {HtmlPart(""), HtmlPart("<p>hi</p>"), PlainPart(""), PdfA,
   Multipart(<<PlainPart(""), PlainPart("<b>")>>),
   Multipart(<<Multipart(<<HtmlPart("<p>hi</p>")>>), PdfB>>)}
  \cup {PlainPart(t) : t \in {"<b>", "a&b"}}
TreeInboxes ==
  {<<Message(MsgId(1), "Inv", TRUE, ps)>> :
      ps \in SeqsUpTo(TreeKinds, MaxTreeParts)}

(***************************************************************************)
(* State.                                                                  *)
(***************************************************************************)
VARIABLES
  production,     \* process.env.NODE_ENV === 'production'
  fileExists,     \* .dev_storage.json exists
  file,           \* its parsed content
  storageCache,   \* the object created at the declaration of storageCache;
                  \* the variable stays bound to it in production and as
                  \* long as no storage file exists, later it is rebound to
                  \* the object a request loaded or saved (req[r].snap)
  objectProfile,  \* the property profile_uuid of Object (ProtoKey's value)
  credentials,    \* the credentials of the one shared oauth2Client
  profiles,       \* collection 'profiles'
  mails,          \* collection 'mails'
  fs,             \* public/attachments: path -> bytes
  inbox,          \* the messages of the mailbox, as the API lists them
  nextSess,       \* number of the next session handle
  nextUuid,       \* number of the next randomUUID()
  req,            \* per slot: the request in flight and its locals
  resp,           \* the response sent last, at the slot of its request
  work            \* per slot: getEmails' per-message processing

storeVars == <<production, fileExists, file, storageCache, objectProfile>>
dbVars == <<profiles, mails, nextUuid>>
vars == <<production, fileExists, file, storageCache, objectProfile,
          credentials, profiles, mails, fs, inbox, nextSess,
          nextUuid, req, resp, work>>

(***************************************************************************)
(* Requests and responses.                                                 *)
(***************************************************************************)
Idle ==
  [kind |-> "idle", pc |-> "idle", cookie |-> NoKey, state |-> NoKey,
   code |-> NoCode, ref |-> "shared", snap |-> EmptyStorage,
   userId |-> NoUser, profile |-> NoUuid, tokens |-> NoToken,
   uuid |-> NoUuid, fetched |-> {}]

Null == -1

BaseResp(kind, status, error) ==
  [kind |-> kind, status |-> status, error |-> error, emails |-> <<>>,
   total |-> 0, unreadCount |-> 0, requiresReauth |-> FALSE,
   setCookie |-> NoKey, authState |-> NoKey, isAuthenticated |-> FALSE,
   profile |-> NoUuid, listed |-> 0, failed |-> 0, upstream |-> 200]

NoResp == BaseResp("none", 0, "")

Finish(r, response) ==
  /\ req' = [req EXCEPT ![r] = Idle]
  /\ resp' = [s \in Slots |-> IF s = r THEN response ELSE NoResp]

(***************************************************************************)
(* The session/token store.                                                *)
(***************************************************************************)
NoSession == [userId |-> NoUser, profile_uuid |-> NoUuid]

\* loadStorage: the object it returns (its content, and whether it is the
\* object storageCache was declared with or one parsed from the file)
LoadRef == IF production \/ ~fileExists THEN "shared" ELSE "own"
Loaded == IF production \/ ~fileExists THEN storageCache ELSE file

\* the content of the object a request's local `storage` refers to
Local(r) == IF req[r].ref = "shared" THEN storageCache ELSE req[r].snap

\* the in-place changes the handlers make to a storage object before they
\* save it:
\*   session     storage.sessions[key] = { userId, email, profile_uuid }
\*   tokens      storage.tokens[userId] = tokens
\*   profile     if (storage.sessions[key]) ...[key].profile_uuid = uuid
\*   disconnect  delete storage.tokens[userId]; delete storage.sessions[key]
\*   none        no change of the object's own properties
Change(op, key, userId, uuid, tokens) ==
  [op |-> op, key |-> key, userId |-> userId, uuid |-> uuid, tokens |-> tokens]
NoChange == Change("none", NoKey, NoUser, NoUuid, NoToken)

Apply(store, c) ==
  CASE c.op = "session" ->
         [store EXCEPT !.sessions =
            Put(@, c.key, [userId |-> c.userId, profile_uuid |-> c.uuid])]
    [] c.op = "tokens" -> [store EXCEPT !.tokens = Put(@, c.userId, c.tokens)]
    [] c.op = "profile" ->
         IF c.key \in DOMAIN store.sessions
         THEN [store EXCEPT !.sessions[c.key].profile_uuid = c.uuid]
         ELSE store
    [] c.op = "disconnect" ->
         [sessions |-> Del(store.sessions, c.key),
          tokens |-> Del(store.tokens, c.userId)]
    [] OTHER -> store

\* the change c made in place to the object `ref` of content `old`, then
\* saveStorage(storage)
SaveStorage(ref, old, c) ==
  /\ storageCache' = IF ref = "shared" THEN Apply(old, c) ELSE storageCache
  /\ file' = IF production THEN file ELSE Apply(old, c)
  /\ fileExists' = IF production THEN fileExists ELSE TRUE
  /\ UNCHANGED production

\* storage.sessions[key]: an own property, else what Object.prototype gives
SessionAt(store, key) ==
  IF key \in DOMAIN store.sessions THEN store.sessions[key]
  ELSE IF key = ProtoKey
       THEN [userId |-> Undefined, profile_uuid |-> objectProfile]
       ELSE NoSession

\* getSession(request)
GetSession(store, cookie) ==
  IF cookie = NoKey THEN NoSession ELSE SessionAt(store, cookie)

\* storage.tokens[userId] || null
TokensAt(store, userId) ==
  IF userId \in DOMAIN store.tokens THEN store.tokens[userId] ELSE NoToken

\* getTokens(request)
GetTokens(store, cookie) ==
  IF GetSession(store, cookie) = NoSession THEN NoToken
  ELSE TokensAt(store, GetSession(store, cookie).userId)

(***************************************************************************)
(* processEmail: the attachments of one message.                           *)
(***************************************************************************)
\* if (part.filename && part.body?.attachmentId)
IsAttachment(part) == part.filename # "" /\ part.attachmentId # ""

\* the first part from index `from` on that the loop awaits a fetch for
\* (0: the loop runs to its end)
NextAttachment(parts, from) ==
  IF \E i \in from..Len(parts) : IsAttachment(parts[i])
  THEN CHOOSE i \in from..Len(parts) :
         /\ IsAttachment(parts[i])
         /\ \A j \in from..(i - 1) : ~IsAttachment(parts[j])
  ELSE 0

\* encodeURIComponent, on the file names of PartKinds
EncodeURIComponent(name) == IF name = "b c.pdf" THEN "b%20c.pdf" ELSE name

NoUrl == <<>>
\* `/attachments/${userId}/${message.id}/${encodeURIComponent(part.filename)}`
PublicUrl(userId, msgId, part) ==
  <<userId, msgId, EncodeURIComponent(part.filename)>>
\* path.join(cwd, 'public', 'attachments', userId, message.id, part.filename)
LocalFilePath(userId, msgId, part) == <<userId, msgId, part.filename>>

\* the entry pushed after a successful write, and the one the catch pushes
SavedEntry(userId, msgId, part) ==
  [filename |-> part.filename, mimeType |-> part.mimeType,
   size |-> part.size, url |-> PublicUrl(userId, msgId, part)]
FailedEntry(part) ==
  [filename |-> part.filename, mimeType |-> part.mimeType,
   size |-> part.size, url |-> NoUrl]

\* the outcomes of one attachment: attachments.get throws, answers without
\* data, mkdirSync or writeFileSync throws, or the file is written
AttachmentOutcomes == {"fetchThrows", "noData", "ioThrows", "ok"}

\* a faulty variant: the catch block pushes nothing
AttachmentsAfterNoCatchPush(atts, userId, msgId, part, outcome) ==
  IF outcome = "ok" THEN Append(atts, [filename |-> part.filename,
                                       mimeType |-> part.mimeType,
                                       size |-> part.size,
                                       url |-> <<userId, msgId, part.filename>>])
  ELSE atts

\* the attachments list after the part's outcome
AttachmentsAfter(atts, userId, msgId, part, outcome) ==
  CASE outcome = "ok" -> Append(atts, SavedEntry(userId, msgId, part))
    [] outcome = "noData" -> atts
    [] OTHER -> Append(atts, FailedEntry(part))

(***************************************************************************)
(* extractEmailBody: the text sent to the classifier.                      *)
(***************************************************************************)
\* html.replace(/<[^>]*>/g, ' ').replace(/\s+/g, ' ').trim(), on the
\* bodies the model's messages carry
StripTags(html) ==
  CASE html = "<p>hi</p>" -> "hi"
    [] html = "<br>" -> ""
    [] OTHER -> html

RECURSIVE ExtractEmailBody(_)
ExtractEmailBody(payload) ==
  IF payload.data # "" THEN payload.data
  ELSE LET ps == payload.parts
           plain == {i \in 1..Len(ps) :
                       ps[i].mimeType = "text/plain" /\ ps[i].data # ""}
           html == {i \in 1..Len(ps) :
                       ps[i].mimeType = "text/html" /\ ps[i].data # ""}
           nested == {i \in 1..Len(ps) :
                       /\ ps[i].parts # <<>>
                       /\ ExtractEmailBody([data |-> ps[i].data,
                                            parts |-> ps[i].parts]) # ""}
           First(S) == CHOOSE i \in S : \A j \in S : i <= j
       IN IF plain # {} THEN ps[First(plain)].data
          ELSE IF html # {} THEN StripTags(ps[First(html)].data)
          ELSE IF nested # {}
               THEN ExtractEmailBody([data |-> ps[First(nested)].data,
                                      parts |-> ps[First(nested)].parts])
               ELSE ""

(***************************************************************************)
(* getEmailBody: the body shown to the user.                               *)
(***************************************************************************)
\* the characters of the texts the model's leaves carry
Chars(text) ==
  CASE text = "<b>" -> <<"<", "b", ">">>
    [] text = "a&b" -> <<"a", "&", "b">>
    [] text = "hi" -> <<"h", "i">>
    [] OTHER -> <<text>>

RECURSIVE Concat(_)
Concat(cs) == IF cs = <<>> THEN "" ELSE Head(cs) \o Concat(Tail(cs))

\* body.replace(/</g, '&lt;').replace(/>/g, '&gt;')
ReplaceAngles(text) ==
  Concat([i \in 1..Len(Chars(text)) |->
            CASE Chars(text)[i] = "<" -> "&lt;"
              [] Chars(text)[i] = ">" -> "&gt;"
              [] OTHER -> Chars(text)[i]])

PreWrap(inner) ==
  "<div style=\"white-space: pre-wrap; font-family: monospace;\">"
    \o inner \o "</div>"

\* payload.parts.find(part => part.mimeType === mime)?.body?.data
FindData(parts, mime) ==
  IF \E i \in 1..Len(parts) : parts[i].mimeType = mime
  THEN parts[CHOOSE i \in 1..Len(parts) :
               /\ parts[i].mimeType = mime
               /\ \A j \in 1..(i - 1) : parts[j].mimeType # mime].data
  ELSE ""

\* a faulty variant: nested parts are not looked into
GetEmailBodyFlat(payload) ==
  IF payload.data # "" THEN payload.data
  ELSE IF FindData(payload.parts, "text/html") # ""
  THEN FindData(payload.parts, "text/html")
  ELSE IF FindData(payload.parts, "text/plain") # ""
  THEN PreWrap(ReplaceAngles(FindData(payload.parts, "text/plain")))
  ELSE ""

RECURSIVE GetEmailBody(_)
GetEmailBody(payload) ==
  IF payload.data # "" THEN payload.data
  ELSE IF FindData(payload.parts, "text/html") # ""
  THEN FindData(payload.parts, "text/html")
  ELSE IF FindData(payload.parts, "text/plain") # ""
  THEN PreWrap(ReplaceAngles(FindData(payload.parts, "text/plain")))
  ELSE LET ps == payload.parts
           Nested(i) == GetEmailBody([data |-> ps[i].data, parts |-> ps[i].parts])
       IN IF \E i \in 1..Len(ps) : Nested(i) # ""
          THEN Nested(CHOOSE i \in 1..Len(ps) :
                        /\ Nested(i) # ""
                        /\ \A j \in 1..(i - 1) : Nested(j) = "")
          ELSE ""

(***************************************************************************)
(* The per-message record of processEmailWithVerification.                 *)
(***************************************************************************)
\* pc: the call the message's processing awaits
\*   attGet      attachments.get of part idx
\*   verify      the request to /api/verify-invoice, not yet handled
\*   classify    verify-invoice's request to the classifier
\*   save        verify-invoice's request to POST /api/mails
\*   saveInsert  POST /api/mails awaiting insertOne
\*   reply       verify-invoice's response on its way back
\*   done        processEmailWithVerification returned
\* outs: the outcomes of the attachment parts handled so far, in part order
\* a faulty variant: the verification is requested without awaiting processEmail
StartMessageSkipsAttachments(message) ==
  [pc |-> "verify", idx |-> 0,
   attachments |-> <<>>, outs |-> <<>>, status |-> 0, is_invoice |-> FALSE,
   confidence |-> Null, inserted |-> NoUuid, branch |-> "",
   isInvoice |-> FALSE, invoiceConfidence |-> Null]

StartMessage(message) ==
  LET i == NextAttachment(message.payload.parts, 1)
  IN [pc |-> IF i = 0 THEN "verify" ELSE "attGet", idx |-> i,
      attachments |-> <<>>, outs |-> <<>>, status |-> 0, is_invoice |-> FALSE,
      confidence |-> Null, inserted |-> NoUuid, branch |-> "",
      isInvoice |-> FALSE, invoiceConfidence |-> Null]

\* the response that processEmailWithVerification's three branches return:
\* response ok, response not ok, fetch threw (verify-invoice's own locals,
\* status and confidence, end with its request)
VerifiedOk(w) ==
  [w EXCEPT !.pc = "done", !.branch = "ok", !.status = 0, !.confidence = Null,
            !.isInvoice = w.is_invoice,
            !.invoiceConfidence = IF w.confidence = 0 THEN Null
                                  ELSE w.confidence]
VerifiedNotOk(w) ==
  [w EXCEPT !.pc = "done", !.branch = "notOk", !.status = 0,
            !.isInvoice = FALSE, !.invoiceConfidence = Null]
\* a faulty variant: the catch keeps the verdict verify-invoice had obtained
VerifiedThrewKeepsVerdict(w) ==
  [w EXCEPT !.pc = "done", !.branch = "threw", !.status = 0, !.confidence = Null,
            !.isInvoice = w.is_invoice, !.invoiceConfidence = w.confidence]
VerifiedThrew(w) ==
  [w EXCEPT !.pc = "done", !.branch = "threw", !.status = 0, !.confidence = Null,
            !.isInvoice = FALSE, !.invoiceConfidence = Null]

\* the ProcessedEmail of a message (processEmail's result and the verdict)
Processed(message, w) ==
  [id |-> message.id, isRead |-> ~message.unread,
   hasAttachments |-> Len(w.attachments) > 0,
   attachments |-> w.attachments, body |-> GetEmailBody(message.payload),
   isInvoice |-> w.isInvoice, invoiceConfidence |-> w.invoiceConfidence]

\* a faulty variant: messages whose verification failed are left out
ProcessedEmailsDropFailed(msgs, ws) ==
  LET all == [i \in 1..Len(ws) |-> [e |-> Processed(msgs[i], ws[i]), b |-> ws[i].branch]]
      kept == SelectSeq(all, LAMBDA x : x.b = "ok")
  IN [i \in 1..Len(kept) |-> kept[i].e]

\* await Promise.all(emailDetails.map(processEmailWithVerification))
ProcessedEmails(msgs, ws) == [i \in 1..Len(ws) |-> Processed(msgs[i], ws[i])]

\* MailSchema.parse(body): user_uuid a uuid, scraped_data of length >= 1
MailSchemaOk(body) == body.user_uuid # NoUuid /\ body.scraped_data # ""

\* verify-invoice's mailData: what of it MailSchema knows
MailData(userUuid, message) ==
  [uuid |-> NoUuid, user_uuid |-> userUuid, scraped_data |-> ""]

(***************************************************************************)
(* getEmails (GET /api/emails).                                            *)
(***************************************************************************)
\* the storage update of a profile_uuid back-fill: the session entry under
\* the cookie gets the uuid and the storage is saved; under ProtoKey the
\* entry is Object itself, which gets the property
BackfillStorage(ref, store, cookie, uuid) ==
  IF cookie # NoKey /\ cookie \in DOMAIN store.sessions
  THEN /\ SaveStorage(ref, store, Change("profile", cookie, NoUser, uuid, NoToken))
       /\ UNCHANGED objectProfile
  ELSE IF cookie = ProtoKey
  THEN /\ SaveStorage(ref, store, NoChange)
       /\ objectProfile' = uuid
  ELSE UNCHANGED storeVars

\* oauth2Client.setCredentials(tokens), then messages.list is called
ToList(r, profile) ==
  /\ credentials' = req[r].tokens
  /\ req' = [req EXCEPT ![r].pc = "list", ![r].profile = profile]

GE_Start(r, cookie) ==
  /\ req[r].kind = "idle"
  /\ work' = [work EXCEPT ![r] = <<>>]
  /\ UNCHANGED <<storeVars, dbVars, fs, inbox, nextSess>>
  /\ LET tokens == GetTokens(Loaded, cookie)
         session == GetSession(Loaded, cookie)
     IN IF tokens = NoToken \/ session = NoSession
        THEN /\ Finish(r, BaseResp("getEmails", 401, "Not authenticated"))
             /\ UNCHANGED credentials
        ELSE /\ resp' = [resp EXCEPT ![r] = NoResp]
             /\ IF session.profile_uuid = NoUuid
                THEN /\ req' = [req EXCEPT ![r] =
                           [Idle EXCEPT !.kind = "getEmails", !.pc = "bfFind",
                                        !.cookie = cookie, !.tokens = tokens,
                                        !.userId = session.userId]]
                     /\ UNCHANGED credentials
                ELSE /\ req' = [req EXCEPT ![r] =
                           [Idle EXCEPT !.kind = "getEmails", !.pc = "list",
                                        !.cookie = cookie, !.tokens = tokens,
                                        !.userId = session.userId,
                                        !.profile = session.profile_uuid]]
                     /\ credentials' = tokens

\* profiles.findOne({ google_id: session.userId })
GE_BackfillFind(r) ==
  /\ req[r].kind = "getEmails" /\ req[r].pc = "bfFind"
  /\ UNCHANGED <<dbVars, fs, inbox, nextSess, resp, work>>
  /\ IF \E p \in profiles : p.google_id = req[r].userId
     THEN \E p \in profiles :
            /\ p.google_id = req[r].userId
            /\ BackfillStorage(LoadRef, Loaded, req[r].cookie, p.uuid)
            /\ ToList(r, p.uuid)
     ELSE /\ req' = [req EXCEPT ![r].pc = "bfInsert"]
          /\ UNCHANGED <<storeVars, credentials>>

\* profiles.insertOne({ uuid, google_id, ... })
GE_BackfillInsert(r) ==
  /\ req[r].kind = "getEmails" /\ req[r].pc = "bfInsert"
  /\ nextUuid <= MaxUuids
  /\ profiles' = profiles \cup
        {[uuid |-> nextUuid, google_id |-> req[r].userId, scanned |-> {}]}
  /\ nextUuid' = nextUuid + 1
  /\ req' = [req EXCEPT ![r].pc = "bfRefind", ![r].uuid = nextUuid]
  /\ UNCHANGED <<storeVars, credentials, mails, fs, inbox,
                 nextSess, resp, work>>

\* profiles.findOne({ uuid }), the storage update, setCredentials
GE_BackfillRefind(r) ==
  /\ req[r].kind = "getEmails" /\ req[r].pc = "bfRefind"
  /\ UNCHANGED <<dbVars, fs, inbox, nextSess, work>>
  /\ IF \E p \in profiles : p.uuid = req[r].uuid
     THEN /\ BackfillStorage(LoadRef, Loaded, req[r].cookie, req[r].uuid)
          /\ ToList(r, req[r].uuid)
          /\ UNCHANGED resp
     ELSE \* profile!.uuid of null throws
          /\ Finish(r, BaseResp("getEmails", 500, "Failed to fetch emails"))
          /\ UNCHANGED <<storeVars, credentials>>

\* a faulty variant: the catch block does not look at error.code
UpstreamErrorAlways500(code) ==
  [BaseResp("getEmails", 500, "Failed to fetch emails") EXCEPT
     !.upstream = code]

\* the response of the catch block to an error of the mailbox API
UpstreamError(code) ==
  IF code = 401
  THEN [BaseResp("getEmails", 401, "Token expired") EXCEPT
          !.requiresReauth = TRUE, !.upstream = code]
  ELSE [BaseResp("getEmails", 500, "Failed to fetch emails") EXCEPT
          !.upstream = code]

\* error.code of a mailbox API call that rejects
ErrorCodes == {401, 403, 404, 429, 500}

\* a faulty variant: an empty list is not answered at once
GE_ListNoEmptyCheck(r, code) ==
  /\ req[r].kind = "getEmails" /\ req[r].pc = "list"
  /\ UNCHANGED <<storeVars, credentials, dbVars, fs, inbox,
                 nextSess, work>>
  /\ IF code # 200 THEN Finish(r, UpstreamError(code))
     ELSE /\ req' = [req EXCEPT ![r].pc = "get"]
          /\ UNCHANGED resp

\* gmail.users.messages.list resolves or rejects
GE_List(r, code) ==
  /\ req[r].kind = "getEmails" /\ req[r].pc = "list"
  /\ UNCHANGED <<storeVars, credentials, dbVars, fs, inbox,
                 nextSess, work>>
  /\ IF code # 200 THEN Finish(r, UpstreamError(code))
     ELSE IF Len(inbox) = 0 THEN Finish(r, BaseResp("getEmails", 200, ""))
     ELSE /\ req' = [req EXCEPT ![r].pc = "get"]
          /\ UNCHANGED resp

\* one gmail.users.messages.get of the Promise.all resolves or rejects
GE_Get(r, i, code) ==
  /\ req[r].kind = "getEmails" /\ req[r].pc = "get"
  /\ i \in (1..Len(inbox)) \ req[r].fetched
  /\ UNCHANGED <<storeVars, credentials, dbVars, fs, inbox, nextSess>>
  /\ IF code # 200
     THEN /\ Finish(r, [UpstreamError(code) EXCEPT
                          !.listed = Len(inbox), !.failed = i])
          /\ UNCHANGED work
     ELSE IF req[r].fetched \cup {i} = 1..Len(inbox)
     THEN /\ req' = [req EXCEPT ![r].pc = "process", ![r].fetched = 1..Len(inbox)]
          /\ work' = [work EXCEPT ![r] = [j \in 1..Len(inbox) |-> StartMessage(inbox[j])]]
          /\ UNCHANGED resp
     ELSE /\ req' = [req EXCEPT ![r].fetched = @ \cup {i}]
          /\ UNCHANGED <<resp, work>>

(***************************************************************************)
(* processEmailWithVerification, message m of request r.                   *)
(***************************************************************************)
Working(r, m, pcs) ==
  /\ req[r].kind = "getEmails" /\ req[r].pc = "process"
  /\ m \in 1..Len(work[r])
  /\ work[r][m].pc \in pcs

\* processEmail: attachments.get of part idx resolves or rejects, the file
\* is written, the loop goes on to the next attachment part; after the last
\* one processEmail returns and the request to verify-invoice is sent
PE_Attachment(r, m, outcome) ==
  /\ Working(r, m, {"attGet"})
  /\ LET w == work[r][m]
         msg == inbox[m]
         part == msg.payload.parts[w.idx]
         nxt == NextAttachment(msg.payload.parts, w.idx + 1)
     IN /\ work' = [work EXCEPT ![r][m] =
              [w EXCEPT !.attachments =
                          AttachmentsAfter(@, req[r].userId, msg.id, part, outcome),
                        !.outs = Append(@, outcome),
                        !.idx = nxt,
                        !.pc = IF nxt = 0 THEN "verify" ELSE "attGet"]]
        /\ fs' = IF outcome = "ok"
                 THEN Put(fs, LocalFilePath(req[r].userId, msg.id, part),
                          <<msg.id, w.idx>>)
                 ELSE fs
  /\ UNCHANGED <<storeVars, credentials, dbVars, inbox, nextSess,
                 req, resp>>

\* the request reaches POST /api/verify-invoice (or the fetch throws):
\* 400 without subject and body, else the classifier is called
VI_Receive(r, m, delivered) ==
  /\ Working(r, m, {"verify"})
  /\ LET w == work[r][m]
         subject == inbox[m].subject
         body == ExtractEmailBody(inbox[m].payload)
     IN work' = [work EXCEPT ![r][m] =
          IF ~delivered THEN VerifiedThrew(w)
          ELSE IF subject = "" /\ body = ""
               THEN [w EXCEPT !.pc = "reply", !.status = 400]
               ELSE [w EXCEPT !.pc = "classify"]]
  /\ UNCHANGED <<storeVars, credentials, dbVars, fs, inbox,
                 nextSess, req, resp>>

\* what the classifier does with a request: the fetch throws, it answers
\* non-2xx, or it answers a verdict {is_invoice, confidence}
ClassifierOutcomes ==
  {[kind |-> "throws", status |-> 0, is_invoice |-> FALSE, confidence |-> Null],
   [kind |-> "non2xx", status |-> 503, is_invoice |-> FALSE, confidence |-> Null]}
  \cup {[kind |-> "verdict", status |-> 200, is_invoice |-> b, confidence |-> c] :
          b \in BOOLEAN, c \in {0, 90}}

\* const userUuid = request.headers.get('x-user-uuid') || emailData.user_uuid
UserUuid(header) == header

\* a faulty variant: every verdict is saved, whatever it says
AfterClassifierSavesAll(w, o, userUuid) ==
  CASE o.kind = "throws" -> [w EXCEPT !.pc = "reply", !.status = 500]
    [] o.kind = "non2xx" -> [w EXCEPT !.pc = "reply", !.status = o.status]
    [] OTHER ->
         [w EXCEPT !.is_invoice = o.is_invoice, !.confidence = o.confidence,
                   !.status = 200, !.pc = "save"]

\* verify-invoice after the classifier's answer: the state of the message
AfterClassifier(w, o, userUuid) ==
  CASE o.kind = "throws" -> [w EXCEPT !.pc = "reply", !.status = 500]
    [] o.kind = "non2xx" -> [w EXCEPT !.pc = "reply", !.status = o.status]
    [] OTHER ->
         [w EXCEPT !.is_invoice = o.is_invoice, !.confidence = o.confidence,
                   !.status = 200,
                   !.pc = IF o.is_invoice /\ userUuid # NoUuid
                          THEN "save" ELSE "reply"]

VI_Classified(r, m, o) ==
  /\ Working(r, m, {"classify"})
  /\ work' = [work EXCEPT ![r][m] =
                AfterClassifier(work[r][m], o, UserUuid(req[r].profile))]
  /\ UNCHANGED <<storeVars, credentials, dbVars, fs, inbox,
                 nextSess, req, resp>>

\* POST /api/mails for verify-invoice's mailData: parse and the profile
\* check, then insertOne; whatever the answer (or if the fetch throws)
\* verify-invoice answers 200 with the verdict
VI_Save(r, m, delivered) ==
  /\ Working(r, m, {"save", "saveInsert"})
  /\ LET w == work[r][m]
         data == MailData(UserUuid(req[r].profile), inbox[m])
     IN IF w.pc = "saveInsert"
        THEN /\ nextUuid <= MaxUuids
             /\ mails' = mails \cup {[uuid |-> nextUuid, user_uuid |-> data.user_uuid]}
             /\ nextUuid' = nextUuid + 1
             /\ work' = [work EXCEPT ![r][m] =
                           [w EXCEPT !.pc = "reply", !.inserted = nextUuid]]
        ELSE /\ UNCHANGED <<mails, nextUuid>>
             /\ work' = [work EXCEPT ![r][m] =
                  IF delivered /\ MailSchemaOk(data)
                     /\ \E p \in profiles : p.uuid = data.user_uuid
                  THEN [w EXCEPT !.pc = "saveInsert"]
                  ELSE [w EXCEPT !.pc = "reply"]]
  /\ UNCHANGED <<storeVars, credentials, profiles, fs, inbox,
                 nextSess, req, resp>>

\* verify-invoice's response reaches processEmailWithVerification, or the
\* fetch throws
PEWV_Reply(r, m, received) ==
  /\ Working(r, m, {"reply"})
  /\ work' = [work EXCEPT ![r][m] =
       IF ~received THEN VerifiedThrew(@)
       ELSE IF @.status = 200 THEN VerifiedOk(@) ELSE VerifiedNotOk(@)]
  /\ UNCHANGED <<storeVars, credentials, dbVars, fs, inbox,
                 nextSess, req, resp>>

Count(S) == Cardinality(S)

\* the second Promise.all resolves: the 200 response
GE_Respond(r) ==
  /\ req[r].kind = "getEmails" /\ req[r].pc = "process"
  /\ \A m \in 1..Len(work[r]) : work[r][m].pc = "done"
  /\ LET emails == ProcessedEmails(inbox, work[r])
     IN Finish(r, [BaseResp("getEmails", 200, "") EXCEPT
                     !.emails = emails, !.total = Len(emails),
                     !.unreadCount = Count({i \in 1..Len(emails) : ~emails[i].isRead}),
                     !.listed = Len(inbox)])
  /\ UNCHANGED <<storeVars, credentials, dbVars, fs, inbox,
                 nextSess, work>>

(***************************************************************************)
(* The fetch pipeline: getEmails requests of a session that has tokens.    *)
(***************************************************************************)
\* a store holding session sess_1 of user u1 with its tokens and profile
AuthedStorage ==
  [sessions |-> (SessKey(1) :> [userId |-> "u1", profile_uuid |-> 1]),
   tokens |-> ("u1" :> "c1")]

\* a storage file of an earlier run: a session without profile_uuid (the
\* key is optional in Session) and its user's tokens
LegacyStorage ==
  [sessions |-> (SessKey(1) :> [userId |-> "u1", profile_uuid |-> NoUuid]),
   tokens |-> ("u1" :> "c0")]

\* u1's profile
Profile1 == [uuid |-> 1, google_id |-> "u1", scanned |-> {}]

\* the session sess_1 is in the store: created by this process or, with a
\* storage file, by an earlier run, then possibly without profile_uuid and
\* without a profile of its user
InitFetch ==
  /\ production \in BOOLEAN
  /\ fileExists = ~production
  /\ file \in IF production THEN {EmptyStorage}
              ELSE {AuthedStorage, LegacyStorage}
  /\ storageCache = IF production THEN AuthedStorage ELSE EmptyStorage
  /\ objectProfile = NoUuid
  /\ credentials = NoToken
  /\ profiles \in IF file = LegacyStorage THEN {{}, {Profile1}} ELSE {{Profile1}}
  /\ mails = {}
  /\ fs = EmptyMap
  /\ inbox \in Inboxes
  /\ nextSess = 2
  /\ nextUuid = IF profiles = {} THEN 1 ELSE 2
  /\ req = [r \in Slots |-> Idle]
  /\ resp = [r \in Slots |-> NoResp]
  /\ work = [r \in Slots |-> <<>>]

NextFetch ==
  \/ \E cookie \in {NoKey, SessKey(1)} : GE_Start(1, cookie)
  \/ GE_BackfillFind(1)
  \/ GE_BackfillInsert(1)
  \/ GE_BackfillRefind(1)
  \/ \E code \in {200} \cup ErrorCodes : GE_List(1, code)
  \/ \E i \in 1..MaxMsgs, code \in {200} \cup ErrorCodes : GE_Get(1, i, code)
  \/ \E m \in 1..MaxMsgs, o \in AttachmentOutcomes : PE_Attachment(1, m, o)
  \/ \E m \in 1..MaxMsgs, d \in BOOLEAN : VI_Receive(1, m, d)
  \/ \E m \in 1..MaxMsgs, o \in ClassifierOutcomes : VI_Classified(1, m, o)
  \/ \E m \in 1..MaxMsgs, d \in BOOLEAN : VI_Save(1, m, d)
  \/ \E m \in 1..MaxMsgs, d \in BOOLEAN : PEWV_Reply(1, m, d)
  \/ GE_Respond(1)

SpecFetch == InitFetch /\ [][NextFetch]_vars

\* getEmails over a mailbox of one message with nested parts, by the
\* session of a process in production
InitTree ==
  /\ production = TRUE
  /\ fileExists = FALSE
  /\ file = EmptyStorage
  /\ storageCache = AuthedStorage
  /\ objectProfile = NoUuid
  /\ credentials = NoToken
  /\ profiles = {Profile1}
  /\ mails = {}
  /\ fs = EmptyMap
  /\ inbox \in TreeInboxes
  /\ nextSess = 2
  /\ nextUuid = 2
  /\ req = [r \in Slots |-> Idle]
  /\ resp = [r \in Slots |-> NoResp]
  /\ work = [r \in Slots |-> <<>>]

NextTree ==
  \/ GE_Start(1, SessKey(1))
  \/ GE_List(1, 200)
  \/ GE_Get(1, 1, 200)
  \/ \E o \in AttachmentOutcomes : PE_Attachment(1, 1, o)
  \/ VI_Receive(1, 1, TRUE)
  \/ \E o \in ClassifierOutcomes : VI_Classified(1, 1, o)
  \/ VI_Save(1, 1, TRUE)
  \/ PEWV_Reply(1, 1, TRUE)
  \/ GE_Respond(1)

SpecTree == InitTree /\ [][NextTree]_vars

(***************************************************************************)
(* The document store's routes: /api/mails, /api/mails/[id],               *)
(* /api/profiles, /api/profiles/[id].                                      *)
(***************************************************************************)
authVars == <<storeVars, credentials, nextSess>>
pipeVars == <<fs, inbox, work>>

\* the uuids a client can name: those the store hands out and one that no
\* document was ever given
ForeignUuid == MaxUuids + 1
ClientUuids == 1..ForeignUuid

\* request bodies, as far as MailSchema reads them: user_uuid (NoUuid: the
\* key is absent or not a uuid) and scraped_data ("": absent or empty)
MailBodies ==
  {[uuid |-> NoUuid, user_uuid |-> u, scraped_data |-> d] :
     u \in {NoUuid} \cup ClientUuids, d \in {"", "x"}}

\* MailSchema.partial().parse(body): every key optional, a key that is
\* present is validated; the model's bodies carry user_uuid, scraped_data
\* or both, always valid ones ("": the key is absent), or an invalid key
PartialBodies ==
  {[valid |-> v, user_uuid |-> u, scraped_data |-> d] :
     v \in BOOLEAN, u \in {NoUuid} \cup ClientUuids, d \in {"", "x"}}

\* one body that fails validation, and the valid bodies that carry
\* scraped_data (with or without user_uuid)
PutBodies ==
  {b \in PartialBodies :
     b.scraped_data = "x" /\ (b.valid \/ b.user_uuid = NoUuid)}

\* $set: validated
SetValidated(mail, body) ==
  [mail EXCEPT !.user_uuid = IF body.user_uuid = NoUuid THEN @
                             ELSE body.user_uuid]

\* POST /api/profiles: parse, insertOne with a fresh uuid
PostProfile(r, valid) ==
  /\ req[r].kind = "idle"
  /\ UNCHANGED <<authVars, pipeVars, mails>>
  /\ IF ~valid
     THEN /\ Finish(r, BaseResp("postProfile", 400, "Validation failed"))
          /\ UNCHANGED <<profiles, nextUuid>>
     ELSE /\ nextUuid <= MaxUuids
          /\ profiles' = profiles \cup
                {[uuid |-> nextUuid, google_id |-> NoUser, scanned |-> {}]}
          /\ nextUuid' = nextUuid + 1
          /\ Finish(r, [BaseResp("postProfile", 201, "") EXCEPT
                          !.profile = nextUuid])

\* POST /api/mails: parse, then profiles.findOne({ uuid: data.user_uuid })
PostMail_Find(r, body) ==
  /\ req[r].kind = "idle"
  /\ UNCHANGED <<authVars, pipeVars, dbVars>>
  /\ IF ~MailSchemaOk(body)
     THEN Finish(r, BaseResp("postMail", 400, "Validation failed"))
     ELSE IF ~\E p \in profiles : p.uuid = body.user_uuid
     THEN Finish(r, BaseResp("postMail", 404, "Profile not found"))
     ELSE /\ req' = [req EXCEPT ![r] =
                [Idle EXCEPT !.kind = "postMail", !.pc = "insert",
                             !.profile = body.user_uuid]]
          /\ resp' = [resp EXCEPT ![r] = NoResp]

\* mails.insertOne(data), 201
PostMail_Insert(r) ==
  /\ req[r].kind = "postMail" /\ req[r].pc = "insert"
  /\ nextUuid <= MaxUuids
  /\ mails' = mails \cup {[uuid |-> nextUuid, user_uuid |-> req[r].profile]}
  /\ nextUuid' = nextUuid + 1
  /\ Finish(r, [BaseResp("postMail", 201, "") EXCEPT !.profile = req[r].profile])
  /\ UNCHANGED <<authVars, pipeVars, profiles>>

\* PUT /api/mails/[id]: parse, updateOne({ uuid: id }, { $set: validated })
PutMail_Update(r, id, body) ==
  /\ req[r].kind = "idle"
  /\ UNCHANGED <<authVars, pipeVars, profiles, nextUuid>>
  /\ IF ~body.valid
     THEN /\ Finish(r, BaseResp("putMail", 400, ""))
          /\ UNCHANGED mails
     ELSE IF ~\E x \in mails : x.uuid = id
     THEN /\ Finish(r, BaseResp("putMail", 404, "Mail not found"))
          /\ UNCHANGED mails
     ELSE /\ mails' = {IF x.uuid = id THEN SetValidated(x, body) ELSE x :
                         x \in mails}
          /\ req' = [req EXCEPT ![r] =
                [Idle EXCEPT !.kind = "putMail", !.pc = "refind", !.uuid = id]]
          /\ resp' = [resp EXCEPT ![r] = NoResp]

\* mails.findOne({ uuid: id }), 200 with the document (or null)
PutMail_Refind(r) ==
  /\ req[r].kind = "putMail" /\ req[r].pc = "refind"
  /\ Finish(r, [BaseResp("putMail", 200, "") EXCEPT
                  !.profile =
                     IF \E x \in mails : x.uuid = req[r].uuid
                     THEN (CHOOSE x \in mails : x.uuid = req[r].uuid).user_uuid
                     ELSE NoUuid])
  /\ UNCHANGED <<authVars, pipeVars, dbVars>>

\* DELETE /api/profiles/[id]: mails.deleteMany({ user_uuid: id })
DeleteProfile_Mails(r, id) ==
  /\ req[r].kind = "idle"
  /\ mails' = {x \in mails : x.user_uuid # id}
  /\ req' = [req EXCEPT ![r] =
        [Idle EXCEPT !.kind = "deleteProfile", !.pc = "deleteOne", !.uuid = id]]
  /\ resp' = [resp EXCEPT ![r] = NoResp]
  /\ UNCHANGED <<authVars, pipeVars, profiles, nextUuid>>

\* profiles.deleteOne({ uuid: id })
DeleteProfile_Profile(r) ==
  /\ req[r].kind = "deleteProfile" /\ req[r].pc = "deleteOne"
  /\ profiles' = {p \in profiles : p.uuid # req[r].uuid}
  /\ Finish(r, IF \E p \in profiles : p.uuid = req[r].uuid
               THEN BaseResp("deleteProfile", 200, "")
               ELSE BaseResp("deleteProfile", 404, "Profile not found"))
  /\ UNCHANGED <<authVars, pipeVars, mails, nextUuid>>

\* POST scan: ScanSchema.parse, then profiles.findOne({ uuid: profile_uuid })
Scan_FindProfile(r, profile_uuid, mail_uuid) ==
  /\ req[r].kind = "idle"
  /\ UNCHANGED <<authVars, pipeVars, dbVars>>
  /\ IF profile_uuid = NoUuid \/ mail_uuid = NoUuid
     THEN Finish(r, BaseResp("scan", 400, ""))
     ELSE /\ req' = [req EXCEPT ![r] =
                [Idle EXCEPT !.kind = "scan",
                             !.pc = IF \E p \in profiles : p.uuid = profile_uuid
                                    THEN "findMail" ELSE "findMailNoProfile",
                             !.profile = profile_uuid, !.uuid = mail_uuid]]
          /\ resp' = [resp EXCEPT ![r] = NoResp]

\* mails.findOne({ uuid: mail_uuid }); if (!profile || !mail) 404
Scan_FindMail(r) ==
  /\ req[r].kind = "scan" /\ req[r].pc \in {"findMail", "findMailNoProfile"}
  /\ UNCHANGED <<authVars, pipeVars, dbVars>>
  /\ IF req[r].pc = "findMailNoProfile" \/ ~\E x \in mails : x.uuid = req[r].uuid
     THEN Finish(r, BaseResp("scan", 404, "Profile or mail not found"))
     ELSE /\ req' = [req EXCEPT ![r].pc = "update"]
          /\ UNCHANGED resp

\* profiles.updateOne({ uuid: profile_uuid }, { $addToSet: { scanned } })
Scan_Update(r) ==
  /\ req[r].kind = "scan" /\ req[r].pc = "update"
  /\ UNCHANGED <<authVars, pipeVars, mails, nextUuid>>
  /\ IF \E p \in profiles : p.uuid = req[r].profile
     THEN /\ profiles' = {IF p.uuid = req[r].profile
                          THEN [p EXCEPT !.scanned = @ \cup {req[r].uuid}]
                          ELSE p : p \in profiles}
          /\ req' = [req EXCEPT ![r].pc = "refind"]
          /\ UNCHANGED resp
     ELSE /\ Finish(r, BaseResp("scan", 500, "Failed to scan"))
          /\ UNCHANGED profiles

\* profiles.findOne({ uuid: profile_uuid }), 200 with the profile (or null)
Scan_Refind(r) ==
  /\ req[r].kind = "scan" /\ req[r].pc = "refind"
  /\ Finish(r, [BaseResp("scan", 200, "") EXCEPT !.profile = req[r].profile])
  /\ UNCHANGED <<authVars, pipeVars, dbVars>>

\* an empty document store; the process has served no request yet
InitDb ==
  /\ production \in BOOLEAN
  /\ fileExists = FALSE
  /\ file = EmptyStorage
  /\ storageCache = EmptyStorage
  /\ objectProfile = NoUuid
  /\ credentials = NoToken
  /\ profiles = {}
  /\ mails = {}
  /\ fs = EmptyMap
  /\ inbox = <<>>
  /\ nextSess = 1
  /\ nextUuid = 1
  /\ req = [r \in Slots |-> Idle]
  /\ resp = [r \in Slots |-> NoResp]
  /\ work = [r \in Slots |-> <<>>]

NextDb ==
  \/ \E r \in Slots, v \in BOOLEAN : PostProfile(r, v)
  \/ \E r \in Slots, body \in MailBodies : PostMail_Find(r, body)
  \/ \E r \in Slots : PostMail_Insert(r)
  \/ \E r \in Slots, id \in ClientUuids, body \in PutBodies :
       PutMail_Update(r, id, body)
  \/ \E r \in Slots : PutMail_Refind(r)
  \/ \E r \in Slots, id \in ClientUuids : DeleteProfile_Mails(r, id)
  \/ \E r \in Slots : DeleteProfile_Profile(r)
  \/ \E r \in Slots, pu \in {NoUuid} \cup ClientUuids, mu \in ClientUuids :
       Scan_FindProfile(r, pu, mu)
  \/ \E r \in Slots : Scan_FindMail(r)
  \/ \E r \in Slots : Scan_Update(r)
  \/ \E r \in Slots : Scan_Refind(r)

SpecDb == InitDb /\ [][NextDb]_vars

(***************************************************************************)
(* The OAuth routes: authGoogle, authGoogleCallback, authStatus,           *)
(* authDisconnect.                                                         *)
(***************************************************************************)
InFlight(kind) == Cardinality({r \in Slots : req[r].kind = kind})

\* let storage = loadStorage(): the reference the request holds and, for an
\* object parsed from the file, the object's content
Load(kind, pc) ==
  [Idle EXCEPT !.kind = kind, !.pc = pc, !.ref = LoadRef,
               !.snap = IF LoadRef = "own" THEN file ELSE EmptyStorage]

\* POST /api/auth/google: loadStorage, then verifyIdToken resolves with
\* payload.sub (NoUser: no credential or no sub), then findOne is awaited
AG_Start(r, sub) ==
  /\ req[r].kind = "idle"
  /\ UNCHANGED <<authVars, pipeVars, dbVars>>
  /\ IF sub = NoUser
     THEN Finish(r, BaseResp("authGoogle", 400, "Invalid credential"))
     ELSE /\ nextSess + InFlight("authGoogle") <= MaxSessions
          /\ req' = [req EXCEPT ![r] =
                       [Load("authGoogle", "find") EXCEPT !.userId = sub]]
          /\ resp' = [resp EXCEPT ![r] = NoResp]

\* authGoogle without a credential, or with one verifyIdToken rejects
AG_Rejected(r, why) ==
  /\ req[r].kind = "idle"
  /\ UNCHANGED <<authVars, pipeVars, dbVars>>
  /\ IF why = "missing"
     THEN Finish(r, BaseResp("authGoogle", 400, "Credential is required"))
     ELSE Finish(r, BaseResp("authGoogle", 500, "Authentication failed"))

\* a faulty variant: the authorization URL carries no state
CreateSessionStateless(r, uuid) ==
  LET sessionId == SessKey(nextSess)
  IN /\ SaveStorage(req[r].ref, Local(r),
                    Change("session", sessionId, req[r].userId, uuid, NoToken))
     /\ UNCHANGED objectProfile
     /\ nextSess' = nextSess + 1
     /\ Finish(r, [BaseResp("authGoogle", 200, "") EXCEPT
                     !.setCookie = sessionId, !.profile = uuid])

\* storage.sessions[sessionId] = {...}; saveStorage(storage); the response
\* sets the cookie and carries the authUrl whose state is the sessionId
CreateSession(r, uuid) ==
  LET sessionId == SessKey(nextSess)
  IN /\ SaveStorage(req[r].ref, Local(r),
                    Change("session", sessionId, req[r].userId, uuid, NoToken))
     /\ UNCHANGED objectProfile
     /\ nextSess' = nextSess + 1
     /\ Finish(r, [BaseResp("authGoogle", 200, "") EXCEPT
                     !.setCookie = sessionId, !.authState = sessionId,
                     !.profile = uuid])

\* a faulty variant: the lookup by google_id never finds a profile
AG_FindNeverFinds(r) ==
  /\ req[r].kind = "authGoogle" /\ req[r].pc = "find"
  /\ req' = [req EXCEPT ![r].pc = "insert"]
  /\ UNCHANGED <<credentials, pipeVars, dbVars, storeVars, nextSess, resp>>

\* profiles.findOne({ google_id: userId })
AG_Find(r) ==
  /\ req[r].kind = "authGoogle" /\ req[r].pc = "find"
  /\ UNCHANGED <<credentials, pipeVars, dbVars>>
  /\ IF \E p \in profiles : p.google_id = req[r].userId
     THEN \E p \in profiles :
            /\ p.google_id = req[r].userId
            /\ CreateSession(r, p.uuid)
     ELSE /\ req' = [req EXCEPT ![r].pc = "insert"]
          /\ UNCHANGED <<storeVars, nextSess, resp>>

\* profiles.insertOne({ uuid, google_id, ... })
AG_Insert(r) ==
  /\ req[r].kind = "authGoogle" /\ req[r].pc = "insert"
  /\ nextUuid <= MaxUuids
  /\ profiles' = profiles \cup
        {[uuid |-> nextUuid, google_id |-> req[r].userId, scanned |-> {}]}
  /\ nextUuid' = nextUuid + 1
  /\ req' = [req EXCEPT ![r].pc = "refind", ![r].uuid = nextUuid]
  /\ UNCHANGED <<authVars, pipeVars, mails, resp>>

\* profiles.findOne({ uuid })
AG_Refind(r) ==
  /\ req[r].kind = "authGoogle" /\ req[r].pc = "refind"
  /\ UNCHANGED <<credentials, pipeVars, dbVars>>
  /\ IF \E p \in profiles : p.uuid = req[r].uuid
     THEN CreateSession(r, req[r].uuid)
     ELSE \* profile!.uuid of null throws
          /\ Finish(r, BaseResp("authGoogle", 500, "Authentication failed"))
          /\ UNCHANGED <<storeVars, nextSess>>

\* GET /api/auth/google/callback: loadStorage, the code and state checks,
\* the session lookup, then oauth2Client.getToken(code) is called
CB_Start(r, cookie, state, code) ==
  /\ req[r].kind = "idle"
  /\ UNCHANGED <<storeVars, credentials, nextSess, pipeVars, dbVars>>
  /\ IF code = NoCode \/ state = NoKey
     THEN /\ Finish(r, BaseResp("callback", 500,
                                "Authorization code or state is missing"))
     ELSE IF SessionAt(Loaded, state) = NoSession
     THEN /\ Finish(r, BaseResp("callback", 500, "Invalid or expired session"))
     ELSE /\ req' = [req EXCEPT ![r] =
                [Load("callback", "getToken") EXCEPT
                   !.state = state, !.code = code,
                   !.userId = SessionAt(Loaded, state).userId]]
          /\ resp' = [resp EXCEPT ![r] = NoResp]

\* getToken resolves (the tokens are named by the code) or rejects
CB_Token(r, ok) ==
  /\ req[r].kind = "callback" /\ req[r].pc = "getToken"
  /\ UNCHANGED <<credentials, nextSess, pipeVars, dbVars>>
  /\ IF ok
     THEN /\ SaveStorage(req[r].ref, Local(r),
                Change("tokens", NoKey, req[r].userId, NoUuid, req[r].code))
          /\ UNCHANGED objectProfile
          /\ Finish(r, BaseResp("callback", 200, ""))
     ELSE /\ UNCHANGED storeVars
          /\ Finish(r, BaseResp("callback", 500, "getToken failed"))

\* the response of authStatus: hasTokens read off `storage`, profile_uuid
\* off the session
StatusResponse(store, userId, profile) ==
  [BaseResp("authStatus", 200, "") EXCEPT
     !.isAuthenticated = userId # NoUser /\ TokensAt(store, userId) # NoToken,
     !.profile = profile]

\* GET /api/auth/status: getSession, storage = storageCache; a session
\* without profile_uuid awaits profiles.findOne
AS_Start(r, cookie) ==
  /\ req[r].kind = "idle"
  /\ UNCHANGED <<authVars, pipeVars, dbVars>>
  /\ LET session == GetSession(Loaded, cookie)
     IN IF session # NoSession /\ session.profile_uuid = NoUuid
        THEN /\ req' = [req EXCEPT ![r] =
                   [Load("authStatus", "find") EXCEPT
                      !.cookie = cookie, !.userId = session.userId]]
             /\ resp' = [resp EXCEPT ![r] = NoResp]
        ELSE Finish(r, StatusResponse(Loaded, session.userId,
                                      session.profile_uuid))

\* profiles.findOne({ google_id: session.userId })
AS_Find(r) ==
  /\ req[r].kind = "authStatus" /\ req[r].pc = "find"
  /\ UNCHANGED <<credentials, nextSess, pipeVars, dbVars>>
  /\ IF \E p \in profiles : p.google_id = req[r].userId
     THEN \E p \in profiles :
            /\ p.google_id = req[r].userId
            /\ BackfillStorage(req[r].ref, Local(r), req[r].cookie, p.uuid)
            /\ Finish(r, StatusResponse(Local(r), req[r].userId, p.uuid))
     ELSE /\ req' = [req EXCEPT ![r].pc = "insert"]
          /\ UNCHANGED <<storeVars, resp>>

\* profiles.insertOne({ uuid, google_id, ... })
AS_Insert(r) ==
  /\ req[r].kind = "authStatus" /\ req[r].pc = "insert"
  /\ nextUuid <= MaxUuids
  /\ profiles' = profiles \cup
        {[uuid |-> nextUuid, google_id |-> req[r].userId, scanned |-> {}]}
  /\ nextUuid' = nextUuid + 1
  /\ req' = [req EXCEPT ![r].pc = "refind", ![r].uuid = nextUuid]
  /\ UNCHANGED <<authVars, pipeVars, mails, resp>>

\* profiles.findOne({ uuid }), the storage update, the response
AS_Refind(r) ==
  /\ req[r].kind = "authStatus" /\ req[r].pc = "refind"
  /\ UNCHANGED <<credentials, nextSess, pipeVars, dbVars>>
  /\ IF \E p \in profiles : p.uuid = req[r].uuid
     THEN /\ BackfillStorage(req[r].ref, Local(r), req[r].cookie, req[r].uuid)
          /\ Finish(r, StatusResponse(Local(r), req[r].userId, req[r].uuid))
     ELSE \* profile!.uuid of null throws into the catch
          /\ Finish(r, StatusResponse(Local(r), req[r].userId, NoUuid))
          /\ UNCHANGED storeVars

\* delete storage.tokens[session.userId]; delete storage.sessions[sessionId];
\* saveStorage(storage)
ClearSession(ref, store, cookie, userId) ==
  /\ SaveStorage(ref, store, Change("disconnect", cookie, userId, NoUuid, NoToken))
  /\ UNCHANGED objectProfile

Disconnected == BaseResp("authDisconnect", 200, "")

\* POST /api/auth/disconnect: loadStorage, getSession; with tokens
\* revokeToken is awaited, without the session is cleared at once
DC_Start(r, cookie) ==
  /\ req[r].kind = "idle"
  /\ UNCHANGED <<credentials, nextSess, pipeVars, dbVars>>
  /\ LET session == GetSession(Loaded, cookie)
     IN IF session = NoSession
        THEN /\ Finish(r, Disconnected)
             /\ UNCHANGED storeVars
        ELSE IF TokensAt(Loaded, session.userId) # NoToken
        THEN /\ req' = [req EXCEPT ![r] =
                   [Load("authDisconnect", "revoke") EXCEPT
                      !.cookie = cookie, !.userId = session.userId,
                      !.tokens = TokensAt(Loaded, session.userId)]]
             /\ resp' = [resp EXCEPT ![r] = NoResp]
             /\ UNCHANGED storeVars
        ELSE /\ ClearSession(LoadRef, Loaded, cookie, session.userId)
             /\ Finish(r, Disconnected)

\* revokeToken resolves, and the session is cleared, or rejects into the
\* catch, which only logs
DC_Revoked(r, ok) ==
  /\ req[r].kind = "authDisconnect" /\ req[r].pc = "revoke"
  /\ UNCHANGED <<credentials, nextSess, pipeVars, dbVars>>
  /\ Finish(r, Disconnected)
  /\ IF ok
     THEN ClearSession(req[r].ref, Local(r), req[r].cookie, req[r].userId)
     ELSE UNCHANGED storeVars

\* the process starts: in production, or with or without a storage file
\* (the file's session is the first of the MaxSessions sessions)
InitAuth ==
  /\ production \in BOOLEAN
  /\ fileExists \in IF production THEN {FALSE} ELSE BOOLEAN
  /\ file = IF fileExists THEN LegacyStorage ELSE EmptyStorage
  /\ storageCache = EmptyStorage
  /\ objectProfile = NoUuid
  /\ credentials = NoToken
  /\ profiles = {}
  /\ mails = {}
  /\ fs = EmptyMap
  /\ inbox = <<>>
  /\ nextSess = IF fileExists THEN 2 ELSE 1
  /\ nextUuid = 1
  /\ req = [r \in Slots |-> Idle]
  /\ resp = [r \in Slots |-> NoResp]
  /\ work = [r \in Slots |-> <<>>]

\* sign-ins are u2's; callbacks carry any state, with or without a cookie
NextAuth ==
  \/ \E r \in Slots, sub \in {"u2", NoUser} : AG_Start(r, sub)
  \/ \E r \in Slots : AG_Find(r)
  \/ \E r \in Slots : AG_Insert(r)
  \/ \E r \in Slots : AG_Refind(r)
  \/ \E r \in Slots, cookie \in {NoKey, SessKey(1)}, state \in Keys,
        code \in Codes \cup {NoCode} : CB_Start(r, cookie, state, code)
  \/ \E r \in Slots, ok \in BOOLEAN : CB_Token(r, ok)
  \/ \E r \in Slots, cookie \in Keys \ {ProtoKey} : AS_Start(r, cookie)
  \/ \E r \in Slots : AS_Find(r)
  \/ \E r \in Slots : AS_Insert(r)
  \/ \E r \in Slots : AS_Refind(r)
  \/ \E r \in Slots, cookie \in Keys \ {ProtoKey} : DC_Start(r, cookie)
  \/ \E r \in Slots, ok \in BOOLEAN : DC_Revoked(r, ok)

SpecAuth == InitAuth /\ [][NextAuth]_vars

(***************************************************************************)
(* markEmailAsRead (POST /api/emails/[id]/read) and the gate of the        *)
(* mailbox routes.                                                         *)
(***************************************************************************)
\* getTokens; without tokens 401, else setCredentials and messages.modify
MR_Start(r, cookie) ==
  /\ req[r].kind = "idle"
  /\ UNCHANGED <<storeVars, nextSess, pipeVars, dbVars>>
  /\ LET tokens == GetTokens(Loaded, cookie)
     IN IF tokens = NoToken
        THEN /\ Finish(r, BaseResp("markEmailAsRead", 401, "Not authenticated"))
             /\ UNCHANGED credentials
        ELSE /\ req' = [req EXCEPT ![r] =
                   [Idle EXCEPT !.kind = "markEmailAsRead", !.pc = "modify",
                                !.cookie = cookie, !.tokens = tokens]]
             /\ resp' = [resp EXCEPT ![r] = NoResp]
             /\ credentials' = tokens

\* messages.modify resolves or rejects
MR_Modify(r, ok) ==
  /\ req[r].kind = "markEmailAsRead" /\ req[r].pc = "modify"
  /\ UNCHANGED <<authVars, pipeVars, dbVars>>
  /\ Finish(r, IF ok THEN BaseResp("markEmailAsRead", 200, "")
               ELSE BaseResp("markEmailAsRead", 500,
                             "Failed to mark email as read"))

\* callbacks store tokens; the mailbox routes are called with any cookie
NextGate ==
  \/ \E r \in Slots, state \in Keys, code \in Codes \cup {NoCode} :
       CB_Start(r, NoKey, state, code)
  \/ \E r \in Slots, ok \in BOOLEAN : CB_Token(r, ok)
  \/ \E r \in Slots, cookie \in Keys : GE_Start(r, cookie)
  \/ \E r \in Slots : GE_BackfillFind(r)
  \/ \E r \in Slots : GE_BackfillInsert(r)
  \/ \E r \in Slots : GE_BackfillRefind(r)
  \/ \E r \in Slots, code \in {200} \cup ErrorCodes : GE_List(r, code)
  \/ \E r \in Slots, cookie \in Keys : MR_Start(r, cookie)
  \/ \E r \in Slots, ok \in BOOLEAN : MR_Modify(r, ok)

SpecGate == InitAuth /\ [][NextGate]_vars

(***************************************************************************)
(* Two users at once: getEmails and markEmailAsRead requests of two        *)
(* signed-in users interleave on the one oauth2Client of the process.      *)
(***************************************************************************)
TwoUserStorage ==
  [sessions |-> (SessKey(1) :> [userId |-> "u1", profile_uuid |-> 1])
                @@ (SessKey(2) :> [userId |-> "u2", profile_uuid |-> 2]),
   tokens |-> ("u1" :> "c0") @@ ("u2" :> "c1")]

SharedInboxes ==
  {<<>>, <<Message(MsgId(1), "Inv", TRUE, <<PdfA>>)>>,
   <<Message(MsgId(1), "Inv", TRUE, <<PdfA, PdfB>>)>>}

InitShared ==
  /\ production = TRUE
  /\ fileExists = FALSE
  /\ file = EmptyStorage
  /\ storageCache = TwoUserStorage
  /\ objectProfile = NoUuid
  /\ credentials = NoToken
  /\ profiles = {Profile1, [uuid |-> 2, google_id |-> "u2", scanned |-> {}]}
  /\ mails = {}
  /\ fs = EmptyMap
  /\ inbox \in SharedInboxes
  /\ nextSess = MaxSessions + 1
  /\ nextUuid = MaxUuids
  /\ req = [r \in Slots |-> Idle]
  /\ resp = [r \in Slots |-> NoResp]
  /\ work = [r \in Slots |-> <<>>]

NextShared ==
  \/ \E r \in Slots : GE_Start(r, SessKey(r))
  \/ \E r \in Slots : GE_List(r, 200)
  \/ \E r \in Slots : GE_Get(r, 1, 200)
  \/ \E r \in Slots : PE_Attachment(r, 1, "ok")
  \/ \E r \in Slots : VI_Receive(r, 1, TRUE)
  \/ \E r \in Slots, o \in ClassifierOutcomes : VI_Classified(r, 1, o)
  \/ \E r \in Slots : VI_Save(r, 1, TRUE)
  \/ \E r \in Slots : PEWV_Reply(r, 1, TRUE)
  \/ \E r \in Slots : GE_Respond(r)
  \/ \E r \in Slots : MR_Start(r, SessKey(r))
  \/ \E r \in Slots : MR_Modify(r, TRUE)

SpecShared == InitShared /\ [][NextShared]_vars

(***************************************************************************)
(* One request at a time: sign-in, callback, status, fetch and disconnect   *)
(* requests, each sent after the previous one was answered.                *)
(***************************************************************************)
NextSeq ==
  \/ \E sub \in Users \cup {NoUser} : AG_Start(1, sub)
  \/ AG_Find(1)
  \/ AG_Insert(1)
  \/ AG_Refind(1)
  \/ \E cookie \in Keys \ {ProtoKey} : AS_Start(1, cookie)
  \/ AS_Find(1)
  \/ AS_Insert(1)
  \/ AS_Refind(1)
  \/ \E cookie \in Keys \ {ProtoKey} : GE_Start(1, cookie)
  \/ GE_BackfillFind(1)
  \/ GE_BackfillInsert(1)
  \/ GE_BackfillRefind(1)
  \/ \E code \in {200} \cup ErrorCodes : GE_List(1, code)
  \/ \E why \in {"missing", "unverified"} : AG_Rejected(1, why)
  \/ \E state \in Keys \ {ProtoKey}, code \in Codes \cup {NoCode} :
        CB_Start(1, NoKey, state, code)
  \/ \E ok \in BOOLEAN : CB_Token(1, ok)
  \/ \E cookie \in Keys \ {ProtoKey} : DC_Start(1, cookie)
  \/ \E ok \in BOOLEAN : DC_Revoked(1, ok)

SpecSeq == InitAuth /\ [][NextSeq]_vars

(***************************************************************************)
(* Properties of the fetch pipeline.                                       *)
(***************************************************************************)
\* the indices of the attachment parts of a part list, in part order
AttachmentIdx(parts) ==
  SelectSeq([i \in 1..Len(parts) |-> i], LAMBDA i : IsAttachment(parts[i]))

\* the place in the attachments list of the entry pushed for the k-th
\* handled attachment part
PushedAt(outs, k) == Cardinality({j \in 1..k : outs[j] # "noData"})

Throws == {"fetchThrows", "ioThrows"}
FailedClassification == {"threw", "notOk"}

\* C1: a getEmails request whose list returned N >= 1 ids and whose N full
\* fetches all succeeded (it is processing the messages) ends in a 200
\* response whose emails list has exactly N entries, the i-th for the i-th
\* listed id, whatever the attachment and classification outcomes were.
C1_OneEntryPerListedMessage ==
  [][\A r \in Slots :
       (req[r].pc = "process" /\ req'[r].kind = "idle")
       => /\ resp'[r].status = 200
          /\ Len(resp'[r].emails) = Len(inbox)
          /\ Len(inbox) >= 1
          /\ \A i \in 1..Len(inbox) : resp'[r].emails[i].id = inbox[i].id]_vars

\* a response with two entries, one of a message whose attachment could not
\* be stored and one of a message whose verification request threw
C1_Witness ==
  /\ resp[1].kind = "getEmails" /\ resp[1].status = 200
  /\ Len(resp[1].emails) = 2
  /\ \E m \in 1..Len(work[1]) :
       \E k \in 1..Len(work[1][m].outs) : work[1][m].outs[k] \in Throws
  /\ \E m \in 1..Len(work[1]) : work[1][m].branch \in FailedClassification

\* C2: when one listed message's full fetch fails with a non-retryable
\* error, the request still answers 200 with the other listed messages.
C2_FailedFetchIsolated ==
  \A r \in Slots :
    (resp[r].kind = "getEmails" /\ resp[r].failed # 0
       /\ resp[r].upstream \in {403, 404} /\ resp[r].listed >= 2)
    => /\ resp[r].status = 200
       /\ \A i \in (1..resp[r].listed) \ {resp[r].failed} :
            \E k \in 1..Len(resp[r].emails) : resp[r].emails[k].id = inbox[i].id

\* C3: an attachment part whose fetch, directory creation or write throws
\* still gets an entry with its filename, mimeType and size and no url, the
\* loop goes on with the next attachment part, and hasAttachments is true
\* exactly when the attachments list is not empty.
C3_FailedAttachmentKept ==
  /\ \A r \in Slots : \A m \in 1..Len(work[r]) :
       LET w == work[r][m]
           parts == inbox[m].payload.parts
           A == AttachmentIdx(parts)
       IN /\ Len(w.outs) <= Len(A)
          /\ \A k \in 1..Len(w.outs) :
               w.outs[k] \in Throws
               => /\ PushedAt(w.outs, k) \in 1..Len(w.attachments)
                  /\ w.attachments[PushedAt(w.outs, k)] =
                       [filename |-> parts[A[k]].filename,
                        mimeType |-> parts[A[k]].mimeType,
                        size |-> parts[A[k]].size, url |-> NoUrl]
          /\ (w.pc = "attGet") <=> (Len(w.outs) < Len(A))
          /\ w.pc = "attGet" => w.idx = A[Len(w.outs) + 1]
  /\ \A r \in Slots : \A i \in 1..Len(resp[r].emails) :
       resp[r].emails[i].hasAttachments <=> (resp[r].emails[i].attachments # <<>>)

\* a returned message whose first attachment threw and whose second one was
\* stored: hasAttachments is true, the first entry has no url
C3_Witness ==
  /\ resp[1].status = 200 /\ Len(resp[1].emails) = 1
  /\ resp[1].emails[1].hasAttachments
  /\ Len(work[1][1].outs) = 2
  /\ work[1][1].outs[1] \in Throws /\ work[1][1].outs[2] = "ok"
  /\ resp[1].emails[1].attachments[1].url = NoUrl
  /\ resp[1].emails[1].attachments[2].url # NoUrl

\* C4: once processEmail is through the parts, the attachments list has
\* exactly one entry per attachment part, in part order, with a url exactly
\* when the part's fetch and write succeeded.
C4_EveryAttachmentPartListed ==
  \A r \in Slots : \A m \in 1..Len(work[r]) :
    LET w == work[r][m]
        parts == inbox[m].payload.parts
        A == AttachmentIdx(parts)
    IN w.pc # "attGet"
       => /\ Len(w.attachments) = Len(A)
          /\ \A k \in 1..Len(A) :
               /\ w.attachments[k].filename = parts[A[k]].filename
               /\ (w.attachments[k].url # NoUrl) <=> (w.outs[k] = "ok")

\* C5: a message whose classification call failed (the request to
\* verify-invoice threw or was answered non-2xx) is returned with
\* isInvoice = false and invoiceConfidence = null in a 200 response, and no
\* mail record was inserted for it.
C5_ClassifierFailureDegrades ==
  \A r \in Slots : \A m \in 1..Len(work[r]) :
    (work[r][m].pc = "done" /\ work[r][m].branch \in FailedClassification)
    => /\ ~work[r][m].isInvoice
       /\ work[r][m].invoiceConfidence = Null
       /\ work[r][m].inserted = NoUuid
       /\ \A x \in mails : x.uuid # work[r][m].inserted
       /\ (req[r].kind = "idle" /\ resp[r].kind = "getEmails")
          => /\ resp[r].status = 200
             /\ ~resp[r].emails[m].isInvoice
             /\ resp[r].emails[m].invoiceConfidence = Null

\* a 200 response for two messages: the classifier was unreachable for one
\* and answered is_invoice = true for the other
C5_Witness ==
  /\ req[1].kind = "idle" /\ resp[1].status = 200 /\ Len(resp[1].emails) = 2
  /\ work[1][1].branch = "notOk"
  /\ work[1][2].branch = "ok" /\ resp[1].emails[2].isInvoice

(***************************************************************************)
(* Properties of the document store.                                       *)
(***************************************************************************)
\* C6: in every state of the document store, whatever the interleaving of
\* POST /api/mails, PUT /api/mails/[id] and DELETE /api/profiles/[id], every
\* mail record's user_uuid is the uuid of a profile that exists.
C6_MailsHaveProfile ==
  \A x \in mails : \E p \in profiles : p.uuid = x.user_uuid

(***************************************************************************)
(* Properties of the session/token store.                                  *)
(***************************************************************************)
\* C7: an authDisconnect whose cookie names a stored session ends with that
\* session's entry and the token set of its userId removed from the store,
\* whether it cleared the session at once (no tokens stored) or awaited
\* revokeToken, and whether revokeToken resolved or rejected.
C7_DisconnectClears ==
  [][\A r \in Slots :
       /\ \A k \in Keys :
            (DC_Start(r, k) /\ k \in DOMAIN Loaded.sessions
               /\ req'[r].kind = "idle")
            => /\ k \notin DOMAIN Loaded'.sessions
               /\ Loaded.sessions[k].userId \notin DOMAIN Loaded'.tokens
       /\ (req[r].kind = "authDisconnect" /\ req'[r].kind = "idle")
            => /\ req[r].cookie \notin DOMAIN Loaded'.sessions
               /\ req[r].userId \notin DOMAIN Loaded'.tokens]_vars

\* C8: an authGoogleCallback whose state is not a key of the session store
\* ends at once in the error page, without calling getToken, and leaves the
\* store as it was.
C8_UnknownStateRejected ==
  [][\A r \in Slots :
       \A c \in Keys, k \in Keys, code \in Codes \cup {NoCode} :
         (CB_Start(r, c, k, code) /\ k \notin DOMAIN Loaded.sessions)
         => /\ req'[r].kind = "idle"
            /\ resp'[r].kind = "callback" /\ resp'[r].status = 500
            /\ Loaded' = Loaded]_vars

\* C9: a callback that succeeds leaves the tokens it obtained in the store
\* under the userId of the session its state named, and the store's other
\* token entries and all its session entries as they were before the step.
C9_CallbackStoresOnlyTokens ==
  [][\A r \in Slots :
       (req[r].kind = "callback" /\ req'[r].kind = "idle"
          /\ resp'[r].status = 200)
       => /\ req[r].userId \in DOMAIN Loaded'.tokens
          /\ Loaded'.tokens[req[r].userId] = req[r].code
          /\ \A u \in (DOMAIN Loaded.tokens \cup DOMAIN Loaded'.tokens)
                        \ {req[r].userId} :
               /\ u \in DOMAIN Loaded.tokens
               /\ u \in DOMAIN Loaded'.tokens
               /\ Loaded'.tokens[u] = Loaded.tokens[u]
          /\ Loaded'.sessions = Loaded.sessions]_vars

\* the changes with which the request of slot r can complete a write: the
\* new session of an authGoogle, the tokens of a callback, the profile_uuid
\* of a back-fill, the removals of a disconnect (of any stored session, for
\* a disconnect that clears at once)
ChangesOf(r) ==
  CASE req[r].kind = "authGoogle" ->
         {Change("session", SessKey(nextSess), req[r].userId, u, NoToken) :
            u \in 1..MaxUuids}
    [] req[r].kind = "callback" ->
         {Change("tokens", NoKey, req[r].userId, NoUuid, req[r].code)}
    [] req[r].kind \in {"authStatus", "getEmails"} ->
         {Change("profile", req[r].cookie, NoUser, u, NoToken) :
            u \in 1..MaxUuids}
    [] req[r].kind = "authDisconnect" ->
         {Change("disconnect", req[r].cookie, req[r].userId, NoUuid, NoToken)}
    [] OTHER ->
         {Change("disconnect", k, file.sessions[k].userId, NoUuid, NoToken) :
            k \in DOMAIN file.sessions}

\* C10: with the file-backed store no completed write is lost: every step
\* that changes the stored content changes it by the one write of one
\* request, applied to the content stored when the write completes, so
\* that every session, token set and profile_uuid written before and not
\* removed by that write is still stored.
C10_NoLostWrite ==
  [][(~production /\ file' # file)
     => \E r \in Slots : \E c \in ChangesOf(r) : file' = Apply(file, c)]_vars

(***************************************************************************)
(* Properties of find-or-create-profile.                                   *)
(***************************************************************************)
\* the profiles of a Google identity
ProfilesOf(P, userId) == {p \in P : p.google_id = userId}

\* C11: whatever the interleaving of authGoogle, authStatus and getEmails
\* requests of one Google identity, the profiles collection never holds
\* more than one profile with that google_id.
C11_OneProfilePerIdentity ==
  \A u \in Users : Cardinality(ProfilesOf(profiles, u)) <= 1

\* C12: with the find-or-create steps run one after the other, every step
\* yields the uuid of the one profile of its identity (so two steps for the
\* same identity yield the same uuid), every profile_uuid a session carries
\* is that uuid, and there is never a second profile of the identity.
C12_FindOrCreateIdempotent ==
  [][/\ \A u \in Users : Cardinality(ProfilesOf(profiles', u)) <= 1
     /\ \A k \in DOMAIN Loaded'.sessions :
          Loaded'.sessions[k].profile_uuid # NoUuid
          => \E p \in ProfilesOf(profiles', Loaded'.sessions[k].userId) :
               p.uuid = Loaded'.sessions[k].profile_uuid
     /\ \A r \in Slots :
          /\ (req[r].kind = "authGoogle" /\ req[r].pc \in {"find", "refind"}
                /\ req'[r].kind = "idle")
             => /\ resp'[r].status = 200
                /\ \E p \in ProfilesOf(profiles', req[r].userId) :
                     p.uuid = resp'[r].profile
          /\ (req[r].kind = "authStatus" /\ req[r].pc \in {"find", "refind"}
                /\ req'[r].kind = "idle")
             => \E p \in ProfilesOf(profiles', req[r].userId) :
                  p.uuid = resp'[r].profile
          /\ (req[r].kind = "getEmails" /\ req[r].pc \in {"bfFind", "bfRefind"}
                /\ req'[r].pc # "bfInsert")
             => /\ req'[r].pc = "list"
                /\ \E p \in ProfilesOf(profiles', req[r].userId) :
                     p.uuid = req'[r].profile]_vars

\* two sessions of the same identity, the first from a find-or-create that
\* inserted the profile and the second from one that found it: both carry
\* the uuid of the identity's one profile
C12_Witness ==
  /\ \E k1, k2 \in DOMAIN Loaded.sessions :
       /\ k1 # k2
       /\ Loaded.sessions[k1].userId = Loaded.sessions[k2].userId
       /\ Loaded.sessions[k1].profile_uuid # NoUuid
       /\ Loaded.sessions[k1].profile_uuid = Loaded.sessions[k2].profile_uuid
       /\ Cardinality(ProfilesOf(profiles, Loaded.sessions[k1].userId)) = 1
  /\ req[1].kind = "idle"

(***************************************************************************)
(* Properties of the pipeline's save step.                                 *)
(***************************************************************************)
\* the mail records a profile owns
MailsOf(M, owner) == {x \in M : x.user_uuid = owner}

C14_PositiveVerdictPersisted ==
  [][\A r \in Slots : \A m \in 1..Len(work[r]) :
       (/\ VI_Save(r, m, TRUE)
        /\ work[r][m].pc = "save"
        /\ work[r][m].is_invoice
        /\ \E p \in profiles : p.uuid = req[r].profile)
       => work'[r][m].pc = "saveInsert"]_vars

\* C15: verify-invoice sends a save request only after a verdict with
\* is_invoice = true and with a user uuid at hand; a negative verdict, a
\* failed classifier call or a missing user uuid never leads to a save
\* request, and the mails collection changes only by such a request's
\* insert.
C15_SaveOnlyPositiveWithUuid ==
  [][\A r \in Slots :
       /\ \A m \in 1..Len(work'[r]) :
            work'[r][m].pc \in {"save", "saveInsert"}
            => /\ m <= Len(work[r])
               /\ work[r][m].pc \in {"classify", "save", "saveInsert"}
               /\ work'[r][m].is_invoice
               /\ UserUuid(req[r].profile) # NoUuid
       /\ \A m \in 1..Len(work[r]) :
            work[r][m].pc = "classify"
            => \A o \in ClassifierOutcomes :
                 /\ AfterClassifier(work[r][m], o, NoUuid).pc = "reply"
                 /\ (o.kind # "verdict" \/ ~o.is_invoice)
                    => AfterClassifier(work[r][m], o, UserUuid(req[r].profile)).pc
                         = "reply"
       /\ mails' # mails
          => \E m \in 1..Len(work[r]) :
               work[r][m].pc = "saveInsert" /\ work[r][m].is_invoice]_vars

\* of two messages one got a negative verdict and was returned without a
\* save request, the other got a positive one and its save request is on
\* its way
C15_Witness ==
  /\ Len(work[1]) = 2
  /\ work[1][1].pc = "save" /\ work[1][1].is_invoice
  /\ work[1][2].pc = "done" /\ work[1][2].branch = "ok"
  /\ ~work[1][2].isInvoice /\ work[1][2].inserted = NoUuid

(***************************************************************************)
(* Properties of the profile cascade delete.                               *)
(***************************************************************************)
\* C16: when DELETE /api/profiles/[id] has completed for an existing
\* profile, no remaining profile's scanned set contains the uuid of a mail
\* that is no longer in the mails collection (the mails of the deleted
\* profile are the only mails this store removes).
C16_CascadePurgesScanned ==
  [][\A r \in Slots :
       (req[r].kind = "deleteProfile" /\ req'[r].kind = "idle"
          /\ resp'[r].status = 200)
       => \A p \in profiles' : \A u \in p.scanned :
            \E x \in mails' : x.uuid = u]_vars

(***************************************************************************)
(* Properties of the stored attachments.                                   *)
(***************************************************************************)
\* the file a public url denotes: the path segments, percent-decoded
DecodeURIComponent(name) == IF name = "b%20c.pdf" THEN "b c.pdf" ELSE name
FileOfUrl(url) == <<url[1], url[2], DecodeURIComponent(url[3])>>

\* C17: for every attachment entry with a url, the file the url denotes
\* holds the bytes fetched for that entry's part (the bytes of part idx of
\* message id are written as <<id, idx>>), so that no other part, message
\* or user has overwritten them.
C17_UrlReadsBackBytes ==
  \A r \in Slots : \A m \in 1..Len(work[r]) :
    LET w == work[r][m]
        A == AttachmentIdx(inbox[m].payload.parts)
    IN \A k \in 1..Len(w.outs) :
         w.outs[k] = "ok"
         => LET e == w.attachments[PushedAt(w.outs, k)]
            IN /\ e.url # NoUrl
               /\ FileOfUrl(e.url) \in DOMAIN fs
               /\ fs[FileOfUrl(e.url)] = <<inbox[m].id, A[k]>>

(***************************************************************************)
(* Properties of the gate of the mailbox routes.                           *)
(***************************************************************************)
\* the request carries no cookie, the cookie is not a key of the session
\* store, or no token set is stored for the session's userId
Unauthenticated(store, cookie) ==
  \/ cookie = NoKey
  \/ cookie \notin DOMAIN store.sessions
  \/ store.sessions[cookie].userId \notin DOMAIN store.tokens

\* C18: getEmails and markEmailAsRead called without a cookie, with a
\* cookie that names no stored session, or for a session without stored
\* tokens end at once with 401 'Not authenticated': no mailbox or
\* classifier call follows, and neither the credentials of the client nor
\* the profiles collection change.
C18_GateRejectsUnauthenticated ==
  [][\A r \in Slots : \A cookie \in Keys :
       ((GE_Start(r, cookie) \/ MR_Start(r, cookie))
          /\ Unauthenticated(Loaded, cookie))
       => /\ req'[r].kind = "idle"
          /\ resp'[r].status = 401
          /\ resp'[r].error = "Not authenticated"
          /\ profiles' = profiles
          /\ credentials' = credentials]_vars

(***************************************************************************)
(* Properties of getEmails' error responses and of the order of steps.     *)
(***************************************************************************)
\* C19: a messages.list or messages.get call rejected with error code 401
\* is answered 401 'Token expired' with requiresReauth = true, a call
\* rejected with any other code is answered 500 'Failed to fetch emails'
\* without requiresReauth.
C19_TokenExpiredDistinct ==
  [][\A r \in Slots : \A code \in ErrorCodes :
       (GE_List(r, code) \/ \E i \in 1..MaxMsgs : GE_Get(r, i, code))
       => /\ req'[r].kind = "idle"
          /\ IF code = 401
             THEN /\ resp'[r].status = 401
                  /\ resp'[r].error = "Token expired"
                  /\ resp'[r].requiresReauth
             ELSE /\ resp'[r].status = 500
                  /\ resp'[r].error = "Failed to fetch emails"
                  /\ ~resp'[r].requiresReauth]_vars

\* the full fetch of a listed message was rejected with 401
C19_Witness ==
  /\ resp[1].kind = "getEmails" /\ resp[1].status = 401
  /\ resp[1].requiresReauth /\ resp[1].failed # 0

\* the order of the awaited calls of one message
Rank(pc) ==
  CASE pc = "attGet" -> 1
    [] pc = "verify" -> 2
    [] pc = "classify" -> 3
    [] pc = "save" -> 4
    [] pc = "saveInsert" -> 5
    [] pc = "reply" -> 6
    [] OTHER -> 7

Confidences == {0, 50, 70, 75, 80, 100}
PrimaryFields == {"invoice_number", "vendor_name", "total_amount"}

\* the fallback of getConfidence (0.95) and the limit of the status (0.75)
DefaultConfidence == 95
FlagLimit == 75

StoredInvoice(uuid, owner, scraped) ==
  [uuid |-> uuid, user_uuid |-> owner, scraped_data |-> scraped]

\* scrapedData[field]?.confidence || 0.95
GetConfidence(scraped, field) ==
  IF scraped[field] = 0 THEN DefaultConfidence ELSE scraped[field]

\* avgConfidence < 0.75 ? "flagged" : "completed", the average of three
\* compared as their sum
StatusOf(scraped) ==
  IF GetConfidence(scraped, "invoice_number")
       + GetConfidence(scraped, "vendor_name")
       + GetConfidence(scraped, "total_amount") < 3 * FlagLimit
  THEN "flagged" ELSE "completed"

\* allInvoices.filter(inv => inv.user_uuid === uuid).map(...)
ProcessedInvoices(all, uuid) ==
  LET mine == {inv \in all : inv.user_uuid = uuid}
      order == CHOOSE q \in [1..Cardinality(mine) -> mine] :
                 \A i, j \in 1..Cardinality(mine) :
                   i < j => q[i].uuid < q[j].uuid
  IN [i \in 1..Cardinality(mine) |->
        [id |-> order[i].uuid, status |-> StatusOf(order[i].scraped_data)]]

\* fetchInvoices(uuid): GET /api/mails is sent
FI_Fetch(r, uuid) ==
  /\ req[r].kind = "idle"
  /\ req' = [req EXCEPT ![r] =
       [Idle EXCEPT !.kind = "fetchInvoices", !.pc = "fetch", !.profile = uuid]]
  /\ resp' = [resp EXCEPT ![r] = NoResp]
  /\ UNCHANGED <<storeVars, credentials, dbVars, fs, inbox, nextSess, work>>

\* the response arrives: filter, map, setInvoices
FI_Received(r) ==
  /\ req[r].kind = "fetchInvoices" /\ req[r].pc = "fetch"
  /\ LET invoices == ProcessedInvoices(mails, req[r].profile)
     IN Finish(r, [BaseResp("fetchInvoices", 200, "") EXCEPT
                     !.emails = invoices, !.total = Len(invoices),
                     !.profile = req[r].profile])
  /\ UNCHANGED <<storeVars, credentials, dbVars, fs, inbox, nextSess, work>>

InitDash ==
  /\ production = TRUE
  /\ fileExists = FALSE
  /\ file = EmptyStorage
  /\ storageCache = AuthedStorage
  /\ objectProfile = NoUuid
  /\ credentials = NoToken
  /\ profiles = {Profile1}
  /\ mails \in {{StoredInvoice(2, 1, d),
                 StoredInvoice(3, ForeignUuid,
                               [f \in PrimaryFields |-> 50])} :
                  d \in [PrimaryFields -> Confidences]}
  /\ fs = EmptyMap
  /\ inbox = <<>>
  /\ nextSess = 2
  /\ nextUuid = MaxUuids + 1
  /\ req = [r \in Slots |-> Idle]
  /\ resp = [r \in Slots |-> NoResp]
  /\ work = [r \in Slots |-> <<>>]

NextDash ==
  \/ \E uuid \in {1, ForeignUuid} : FI_Fetch(1, uuid)
  \/ FI_Received(1)

SpecDash == InitDash /\ [][NextDash]_vars

(***************************************************************************)
(* Properties of getEmailBody.                                             *)
(***************************************************************************)
\* the escape that leaves no character of a text to be read as markup
EscapeHtml(text) ==
  Concat([i \in 1..Len(Chars(text)) |->
            CASE Chars(text)[i] = "<" -> "&lt;"
              [] Chars(text)[i] = ">" -> "&gt;"
              [] Chars(text)[i] = "&" -> "&amp;"
              [] OTHER -> Chars(text)[i]])

\* the direct parts of a payload that are leaves of a type and have data
DirectWithData(payload, mime) ==
  {i \in 1..Len(payload.parts) :
     payload.parts[i].mimeType = mime /\ payload.parts[i].data # ""}

\* the message of the mailbox an entry of the response was made from
MessageOf(email) == inbox[CHOOSE m \in 1..Len(inbox) : inbox[m].id = email.id]

\* C21: for a returned message without root body data whose direct parts
\* have a text/plain part with data and no text/html part with data, the
\* body is the pre-wrap monospace container around the plaintext of a
\* text/plain part with every one of its <, > and & escaped.
C21_PlainTextEscaped ==
  \A r \in Slots : \A i \in 1..Len(resp[r].emails) :
    LET payload == MessageOf(resp[r].emails[i]).payload
    IN (/\ payload.data = ""
        /\ DirectWithData(payload, "text/plain") # {}
        /\ DirectWithData(payload, "text/html") = {})
       => \E k \in DirectWithData(payload, "text/plain") :
            resp[r].emails[i].body = PreWrap(EscapeHtml(payload.parts[k].data))

\* C27: for a returned message without root body data one of whose direct
\* parts is a text/html part with data, the body is the data of a direct
\* text/html part, whatever the other direct parts are.
C27_HtmlPreferred ==
  \A r \in Slots : \A i \in 1..Len(resp[r].emails) :
    LET payload == MessageOf(resp[r].emails[i]).payload
    IN (payload.data = "" /\ DirectWithData(payload, "text/html") # {})
       => \E k \in DirectWithData(payload, "text/html") :
            resp[r].emails[i].body = payload.parts[k].data

\* some part of the tree below a payload, or the payload itself, has data
RECURSIVE AnyData(_)
AnyData(payload) ==
  \/ payload.data # ""
  \/ \E i \in 1..Len(payload.parts) : AnyData(payload.parts[i])

\* C28: the body of a returned message is computed for every tree; when
\* neither the root nor a direct text/html or text/plain part has data it
\* is the first non-empty body of the direct parts taken in order, each
\* resolved the same way, and it is the empty string when no part of the
\* tree has data.
C28_NestedBodyDepthFirst ==
  \A r \in Slots : \A i \in 1..Len(resp[r].emails) :
    LET payload == MessageOf(resp[r].emails[i]).payload
        body == resp[r].emails[i].body
        ps == payload.parts
        Below(k) == [data |-> ps[k].data, parts |-> ps[k].parts]
    IN /\ (/\ payload.data = ""
           /\ DirectWithData(payload, "text/html") = {}
           /\ DirectWithData(payload, "text/plain") = {})
          => /\ \A k \in 1..Len(ps) :
                  (/\ AnyData(Below(k))
                   /\ \A j \in 1..(k - 1) : ~AnyData(Below(j)))
                  => body # "" /\ body = GetEmailBody(Below(k))
             /\ (\A k \in 1..Len(ps) : ~AnyData(Below(k))) => body = ""
       /\ ~AnyData(payload) => body = ""

C28_Witness ==
  /\ Len(resp[1].emails) = 1
  /\ LET payload == inbox[1].payload
     IN /\ Len(payload.parts) = 2
        /\ payload.parts[1] = HtmlPart("")
        /\ payload.parts[2] = Multipart(<<PlainPart(""), PlainPart("<b>")>>)
  /\ resp[1].emails[1].body = "<b>"

(***************************************************************************)
(* Properties of the attachments list over nested parts.                   *)
(***************************************************************************)
\* the parts of a tree with a filename and an attachmentId, depth first
RECURSIVE AttachmentLeaves(_)
AttachmentLeaves(parts) ==
  IF parts = <<>> THEN <<>>
  ELSE (IF IsAttachment(Head(parts)) THEN <<Head(parts)>> ELSE <<>>)
       \o AttachmentLeaves(Head(parts).parts)
       \o AttachmentLeaves(Tail(parts))

\* C29: once the attachments of a message are worked through, and the
\* mailbox returned data for each of them, the attachments list has one
\* entry for every part of the tree, at any depth, that has a filename and
\* an attachmentId, and no other entry.
C29_NestedAttachmentsListed ==
  \A r \in Slots : \A m \in 1..Len(work[r]) :
    LET w == work[r][m]
        L == AttachmentLeaves(inbox[m].payload.parts)
    IN (w.pc # "attGet" /\ \A k \in 1..Len(w.outs) : w.outs[k] # "noData")
       => /\ Len(w.attachments) = Len(L)
          /\ \A k \in 1..Len(L) :
               /\ w.attachments[k].filename = L[k].filename
               /\ w.attachments[k].mimeType = L[k].mimeType

(***************************************************************************)
(* Properties of the listing step of getEmails.                            *)
(***************************************************************************)
\* C22: when the list of an authenticated request comes back without
\* error and the mailbox has no message, that step ends the request with
\* status 200 and exactly emails = [], total = 0, unreadCount = 0; with an
\* empty mailbox no step starts work on a message, writes a mail record or
\* writes an attachment file.
C22_EmptyListAnsweredAtOnce ==
  [][/\ \A r \in Slots :
          ((/\ req[r].kind = "getEmails" /\ req[r].pc = "list"
           /\ req'[r] # req[r]
           /\ Len(inbox) = 0
           /\ resp'[r].error = "")
          => /\ req'[r] = Idle
             /\ resp'[r] = BaseResp("getEmails", 200, "")
             /\ resp'[r].emails = <<>>
             /\ resp'[r].total = 0 /\ resp'[r].unreadCount = 0)
      /\ (Len(inbox) = 0
          => /\ mails' = mails /\ fs' = fs
             /\ \A s \in Slots : work'[s] = <<>> /\ req'[s].fetched = {})]_vars

C22_Witness ==
  /\ inbox = <<>>
  /\ resp[1].kind = "getEmails" /\ resp[1].status = 200
  /\ resp[1].emails = <<>>
  /\ req[1] = Idle

\* C24: a list or a full-message fetch answered with 429 or a 5xx status
\* does not end the request: the request is still in flight after the
\* step, to issue the call again.
C24_TransientFailureRetried ==
  [][\A r \in Slots : \A code \in {c \in ErrorCodes : c = 429 \/ c >= 500} :
       (GE_List(r, code) \/ \E i \in 1..MaxMsgs : GE_Get(r, i, code))
       => req'[r].kind = "getEmails"]_vars

(***************************************************************************)
(* Properties of the dashboard status.                                     *)
(***************************************************************************)
\* C23: every invoice the dashboard shows is flagged exactly when the
\* average of the stored confidences of invoice_number, vendor_name and
\* total_amount of its mail record is below 0.75, and completed otherwise.
C23_FlaggedBelowLimit ==
  \A r \in Slots :
    resp[r].kind = "fetchInvoices"
    => \A i \in 1..Len(resp[r].emails) :
         \E inv \in mails :
           /\ inv.uuid = resp[r].emails[i].id
           /\ LET d == inv.scraped_data
                  sum == d["invoice_number"] + d["vendor_name"] + d["total_amount"]
              IN /\ (resp[r].emails[i].status = "flagged") <=> (sum < 3 * FlagLimit)
                 /\ (resp[r].emails[i].status = "completed") <=> (sum >= 3 * FlagLimit)

(***************************************************************************)
(* Properties of authGoogle.                                               *)
(***************************************************************************)
\* C25: an authGoogle request answered with anything but 200 (credential
\* missing, verification failed, no subject, profile lost) leaves the
\* sessions as they were and returns neither cookie nor authorization URL
\* state; one answered 200 was verified to a subject, adds exactly one
\* session, of that subject, and returns that session's handle both as the
\* cookie and as the state of the authorization URL; no other step adds a
\* session.
C25_SessionOnlyAfterVerification ==
  [][/\ \A r \in Slots :
          (resp'[r].kind = "authGoogle" /\ resp' # resp)
          => IF resp'[r].status = 200
             THEN /\ req[r].kind = "authGoogle" /\ req[r].userId \in Users
                  /\ resp'[r].authState \notin DOMAIN Loaded.sessions
                  /\ DOMAIN Loaded'.sessions =
                       DOMAIN Loaded.sessions \cup {resp'[r].authState}
                  /\ Loaded'.sessions[resp'[r].authState].userId = req[r].userId
                  /\ resp'[r].setCookie = resp'[r].authState
             ELSE /\ Loaded'.sessions = Loaded.sessions
                  /\ resp'[r].setCookie = NoKey
                  /\ resp'[r].authState = NoKey
     /\ (~(DOMAIN Loaded'.sessions \subseteq DOMAIN Loaded.sessions)
         => \E r \in Slots :
              resp'[r].kind = "authGoogle" /\ resp'[r].status = 200)]_vars

C25_Witness ==
  /\ resp[1].kind = "authGoogle" /\ resp[1].status = 200
  /\ resp[1].authState \in DOMAIN Loaded.sessions
  /\ Loaded.sessions[resp[1].authState].userId \in Users
  /\ resp[1].setCookie = resp[1].authState

(***************************************************************************)
(* Properties of the token sets of one identity.                           *)
(***************************************************************************)
\* C30: all sessions of one identity read the same token set; a disconnect that clears a session
\* leaves the other sessions of its identity in the store without tokens;
\* for a session whose identity has no tokens authStatus reports
\* isAuthenticated = false and getEmails answers 401; and an identity
\* without tokens gets tokens again only by a callback answered 200.
C30_TokensSharedByIdentity ==
  [][/\ \A k1, k2 \in DOMAIN Loaded'.sessions :
          Loaded'.sessions[k1].userId = Loaded'.sessions[k2].userId
          => GetTokens(Loaded', k1) = GetTokens(Loaded', k2)
     /\ \A r \in Slots : \A cookie \in DOMAIN Loaded.sessions :
          LET userId == Loaded.sessions[cookie].userId
              idle == TokensAt(Loaded, userId) = NoToken
          IN /\ (cookie \notin DOMAIN Loaded'.sessions
                 /\ resp'[r].kind = "authDisconnect")
                => \A k \in DOMAIN Loaded.sessions \ {cookie} :
                     Loaded.sessions[k].userId = userId
                     =>
                     /\ k \in DOMAIN Loaded'.sessions
                     /\ Loaded'.sessions[k] = Loaded.sessions[k]
                     /\ GetTokens(Loaded', k) = NoToken
             /\ (AS_Start(r, cookie) /\ idle /\ req'[r].kind = "idle")
                => ~resp'[r].isAuthenticated
             /\ (GE_Start(r, cookie) /\ idle)
                => resp'[r].status = 401 /\ req'[r].kind = "idle"
     /\ \A u \in Users :
          (TokensAt(Loaded, u) = NoToken /\ TokensAt(Loaded', u) # NoToken)
          => \E r \in Slots :
               /\ req[r].kind = "callback" /\ req[r].userId = u
               /\ resp'[r].status = 200]_vars

(***************************************************************************)
(* Properties of the shared mailbox client.                                *)
(***************************************************************************)
\* the attachments.get call a message's work is waiting for, 0 when none
AttachmentCall(w, m) ==
  IF m \in 1..Len(w) /\ w[m].pc = "attGet" THEN w[m].idx ELSE 0

\* C26: whenever a request issues a mailbox call (messages.list on
\* entering the list step, the messages.get calls when the list resolves,
\* an attachments.get when a message's work comes to an attachment part,
\* messages.modify on entering the modify step), the credentials on the
\* mailbox client at that moment are the token set of the request's user.
C26_CallsUseOwnTokens ==
  [][\A r \in Slots :
       /\ (req'[r].pc = "list" /\ req[r].pc # "list")
          => credentials' = req'[r].tokens
       /\ (req[r].pc = "list" /\ req'[r].pc = "get")
          => credentials' = req'[r].tokens
       /\ (\E m \in 1..MaxMsgs :
             /\ AttachmentCall(work'[r], m) # 0
             /\ AttachmentCall(work'[r], m) # AttachmentCall(work[r], m))
          => credentials' = req'[r].tokens
       /\ (req'[r].pc = "modify" /\ req[r].pc # "modify")
          => credentials' = req'[r].tokens]_vars

====
